---- MODULE Spec2Model ----
(***************************************************************************)
(* Registry resolution layer of inup: the jsDelivr (CDN) client with its   *)
(* retry loop, in-flight coalescing, batching and npm fallback             *)
(* (src/services/jsdelivr-registry.ts), the npm registry client            *)
(* (src/services/npm-registry.ts) and the cache manager in front of the    *)
(* persistent cache (src/services/cache-manager.ts).                       *)
(*                                                                         *)
(* The program runs on one JavaScript thread.  A synchronous run of code   *)
(* (from an event to the next await whose promise is still pending,        *)
(* drained microtasks included) is one atomic action of the model; the     *)
(* events are the calls of the entry points, the network responses, the    *)
(* timers and the passing of time.                                         *)
(***************************************************************************)
EXTENDS Integers, Sequences, FiniteSets, TLC

\* ------------------------------------------------------------------ bounds
MaxPackages == 6        \* longest packageNames list a caller passes
MaxRegistryPackages == 3 \* longest list passed straight to the npm client
MaxConfigLen == 2       \* longest configured retry sequence explored
MaxDelayLen == 2        \* longest configured delay table explored
MaxCacheOps == 4        \* most cache operations in one behaviour
\* MAX_CACHE_ENTRIES (persistent-cache.ts 26) is 5000; the model takes a
\* capacity of 10, the least for which Math.floor(capacity * 0.1) is positive.
MaxCacheEntries == 10
\* the dependency entries read from the package.json files of one run
MaxDeps == 3
\* the packages listed in the interactive selection
MaxRows == 2
\* the packages of a list on screen
MaxNavPackages == 6

\* ------------------------------------------------------- program constants
BATCH_SIZE == 5
DEFAULT_JSDELIVR_RETRY_TIMEOUT_MS == 2000
CACHE_TTL == 300000
DISK_CACHE_TTL == 86400000
CACHE_VERSION == 1

Names == {"a", "b"}

\* An optional value (T | null | undefined) is a sequence of length <= 1.
None == <<>>
Some(x) == <<x>>
IsSome(o) == Len(o) > 0
Get(o) == o[1]

Max(x, y) == IF x >= y THEN x ELSE y
Min(x, y) == IF x <= y THEN x ELSE y

\* ------------------------------------------------------- version strings
\* A version string is kept by its parts: the dotted numeric core, the
\* pre-release suffix after '-', or (for a string with no digits) the word.
\*   "2.3.1"      = [core |-> <<2,3,1>>, pre |-> "",     word |-> ""]
\*   "1.0"        = [core |-> <<1,0>>,   pre |-> "",     word |-> ""]
\*   "3.0.0-rc.1" = [core |-> <<3,0,0>>, pre |-> "rc.1", word |-> ""]
\*   "stable"     = [core |-> <<>>,      pre |-> "",     word |-> "stable"]
Ver(core, pre) == [core |-> core, pre |-> pre, word |-> ""]
Word(w) == [core |-> <<>>, pre |-> "", word |-> w]

v231 == Ver(<<2, 3, 1>>, "")
v190 == Ver(<<1, 9, 0>>, "")
v100 == Ver(<<1, 0, 0>>, "")
v10 == Ver(<<1, 0>>, "")
v300rc == Ver(<<3, 0, 0>>, "rc.1")
vStable == Word("stable")
vBeta == Word("beta")
vEmpty == Word("")          \* the empty string
UNKNOWN == Word("unknown")

\* Words in the order of String.prototype.localeCompare.
WordOrder == <<"", "beta", "stable", "unknown">>
WordRank(w) == CHOOSE i \in 1..Len(WordOrder) : WordOrder[i] = w
localeCompare(a, b) == WordRank(a.word) - WordRank(b.word)

\* semver.valid: the string itself when it is MAJOR.MINOR.PATCH[-PRERELEASE].
semverValid(v) == IF v.word = "" /\ Len(v.core) = 3 THEN Some(v) ELSE None

\* semver.coerce: the first numeric run, padded to three parts, suffix dropped.
semverCoerce(v) ==
    IF v.word # "" \/ Len(v.core) = 0 THEN None
    ELSE Some(Ver(<<v.core[1],
                    IF Len(v.core) >= 2 THEN v.core[2] ELSE 0,
                    IF Len(v.core) >= 3 THEN v.core[3] ELSE 0>>, ""))

\* semver.compare on valid versions: -1, 0, 1 (numeric core first, then a
\* release above its pre-releases).
semverCompare(a, b) ==
    IF a.core[1] # b.core[1] THEN (IF a.core[1] < b.core[1] THEN -1 ELSE 1)
    ELSE IF a.core[2] # b.core[2] THEN (IF a.core[2] < b.core[2] THEN -1 ELSE 1)
    ELSE IF a.core[3] # b.core[3] THEN (IF a.core[3] < b.core[3] THEN -1 ELSE 1)
    ELSE IF a.pre = b.pre THEN 0
    ELSE IF a.pre = "" THEN 1
    ELSE IF b.pre = "" THEN -1
    ELSE 0

semverRcompare(a, b) == semverCompare(b, a)

\* The regular expression /^[0-9]+\.[0-9]+\.[0-9]+$/ of the npm client.
IsStrictRelease(v) == v.word = "" /\ Len(v.core) = 3 /\ v.pre = ""

Range(s) == {s[i] : i \in 1..Len(s)}

extractMajorVersion(version) ==
    IF ~IsSome(version) \/ Get(version) = vEmpty THEN None
    ELSE LET coerced == semverCoerce(Get(version))
         IN  IF ~IsSome(coerced) THEN None ELSE Some(Get(coerced).core[1])

toComparableVersion(version) ==
    IF IsSome(semverValid(version)) THEN semverValid(version)
    ELSE semverCoerce(version)

versionIdentity(version) ==
    LET comparable == toComparableVersion(version)
    IN  IF IsSome(comparable) THEN <<"semver", Get(comparable)>>
        ELSE <<"raw", version>>

RECURSIVE UniqueByIdentity(_, _)
UniqueByIdentity(versions, seen) ==
    IF versions = <<>> THEN <<>>
    ELSE IF versionIdentity(Head(versions)) \in seen
         THEN UniqueByIdentity(Tail(versions), seen)
         ELSE <<Head(versions)>> \o
              UniqueByIdentity(Tail(versions), seen \cup {versionIdentity(Head(versions))})

CompareDescending(a, b) ==
    LET comparableA == toComparableVersion(a)
        comparableB == toComparableVersion(b)
    IN  IF IsSome(comparableA) /\ IsSome(comparableB)
        THEN semverRcompare(Get(comparableA), Get(comparableB))
        ELSE IF IsSome(comparableA) THEN -1
        ELSE IF IsSome(comparableB) THEN 1
        ELSE localeCompare(b, a)

\* The comparators handed to Array.prototype.sort: jsdelivr-registry.ts 38 and
\* 232-249, npm-registry.ts 60.
Comparator(cmp, a, b) ==
    CASE cmp = "ascending" -> a - b
      [] cmp = "versionsDescending" -> CompareDescending(a, b)
      [] cmp = "rcompare" -> semverRcompare(a, b)

\* Array.prototype.sort with comparator cmp (stable; insertion sort).
RECURSIVE InsertSorted(_, _, _)
InsertSorted(cmp, x, s) ==
    IF s = <<>> THEN <<x>>
    ELSE IF Comparator(cmp, x, Head(s)) < 0 THEN <<x>> \o s
    ELSE <<Head(s)>> \o InsertSorted(cmp, x, Tail(s))

RECURSIVE SortBy(_, _)
SortBy(cmp, s) ==
    IF s = <<>> THEN <<>>
    ELSE InsertSorted(cmp, s[Len(s)], SortBy(cmp, SubSeq(s, 1, Len(s) - 1)))

\* The sort without the removal of duplicates.
sortVersionsKeepsDuplicates(versions) == SortBy("versionsDescending", versions)

sortVersionsDescending(versions) ==
    SortBy("versionsDescending", UniqueByIdentity(versions, {}))

\* PackageVersionData
Data(latest, all) == [latestVersion |-> latest, allVersions |-> all]
Sentinel == Data(UNKNOWN, <<>>)

\* The ordering without the forced first position.
orderedVersionsSortedOnly(latestVersion, sortedVersions) == sortedVersions

\* jsdelivr-registry.ts 472-475
orderedVersions(latestVersion, sortedVersions) ==
    IF sortedVersions[1] = latestVersion THEN sortedVersions
    ELSE <<latestVersion>> \o SelectSeq(sortedVersions, LAMBDA version : version # latestVersion)

\* jsdelivr-registry.ts 465-480: the data composed from the CDN answers.
ComposeCdnData(latestVersion, majorResult) ==
    LET allVersions ==
            IF IsSome(majorResult) /\ Get(majorResult) # latestVersion
            THEN <<latestVersion, Get(majorResult)>>
            ELSE <<latestVersion>>
    IN  Data(latestVersion, orderedVersions(latestVersion, sortVersionsDescending(allVersions)))

\* npm-registry.ts 54-66: the data composed from the keys of `versions`.
ComposeRegistryData(versionKeys) ==
    LET sortedVersions == SortBy("rcompare", SelectSeq(versionKeys, IsStrictRelease))
        latestVersion == IF Len(sortedVersions) > 0 THEN sortedVersions[1] ELSE UNKNOWN
    IN  Data(latestVersion, sortedVersions)


\* ------------------------------------------------------------ state
VARIABLES
    \* configuration, read once at module load (config: JSDELIVR_RETRY_TIMEOUTS,
    \* JSDELIVR_RETRY_DELAYS); the entries are in half milliseconds, so that
    \* 21 stands for 10.5 ms
    cfgTimeouts, cfgDelays,
    \* CacheManager.memoryCache and the persistent cache behind it
    memoryCache, diskCache, diskIndex,
    \* the call in progress: which entry point, and its arguments
    entry, callState, packageNames, currentVersions, onProgress, onBatchReady,
    \* locals of the call
    progressCallback, batchReadyCallback, packageData, completedCount,
    batchBuffer, batchTimer, inFlightLookups,
    \* the position of every input occurrence (fetchPackageWithFallback, or the
    \* mapper of getAllPackageData) and of every lookup (fetchFreshPackageData)
    task, lookup,
    \* what the environment has seen of the call
    progressLog, batchLog, fallbackLog, requests, seen, flushes, thrown,
    \* whether clearJsdelivrPackageCache has been called
    cleared,
    \* what the call before the current one returned and requested, if the
    \* current call is the second of two
    previous,
    \* the cache tiers in detail: the files of PersistentCacheManager.cacheDir,
    \* its fields index and dirty, the entries of CacheManager.memoryCache with
    \* their timestamps, and Date.now()
    files, index, dirty, timedMemory, now,
    \* the cache operations made so far, each with what it returned
    trace,
    \* PackageDetector.getOutdatedPackages: the dependency entries it collected,
    \* the map the registry client resolved for them, the list it returns, and
    \* how far the call has come
    allDeps, allPackageData, packages, detectorState,
    \* the interactive selection: the PackageSelectionState list handed to
    \* StateManager, NavigationManager.state.currentRow, and the Left and Right
    \* presses made in a row on the current row, each with the selection it found
    states, currentRow, pressed,
    \* the package list on screen: NavigationManager.state.scrollOffset, its
    \* renderableItems and maxVisibleItems, and the number of packages the
    \* key handlers pass as totalItems
    scrollOffset, renderableItems, maxVisibleItems, totalItems

cfgVars == <<cfgTimeouts, cfgDelays>>
cacheVars == <<memoryCache, diskCache, diskIndex>>
argVars == <<entry, packageNames, currentVersions, onProgress, onBatchReady>>
localVars == <<progressCallback, batchReadyCallback, packageData, completedCount,
               batchBuffer, batchTimer, inFlightLookups, task, lookup, callState>>
logVars == <<progressLog, batchLog, fallbackLog, requests, seen, flushes, thrown>>
storeVars == <<files, index, dirty, timedMemory, now, trace>>
detectorVars == <<allDeps, allPackageData, packages, detectorState>>
selectionVars == <<states, currentRow, pressed>>
navVars == <<scrollOffset, renderableItems, maxVisibleItems, totalItems>>
vars == <<cfgVars, cacheVars, argVars, localVars, logVars, cleared, previous, storeVars,
         detectorVars, selectionVars, navVars>>

\* -------------------------------------------------- retry configuration
\* jsdelivr-registry.ts 24-31, on a value given in half milliseconds.
toPositiveInteger(value) ==
    IF value <= 0 THEN None
    ELSE LET normalized == value \div 2
         IN  IF normalized > 0 THEN Some(normalized) ELSE None

RECURSIVE MapPositive(_)
MapPositive(configured) ==
    IF configured = <<>> THEN <<>>
    ELSE LET v == toPositiveInteger(Head(configured))
         IN  (IF IsSome(v) THEN <<Get(v)>> ELSE <<>>) \o MapPositive(Tail(configured))

RECURSIVE SortAscending(_)
SortAscending(S) ==
    IF S = {} THEN <<>>
    ELSE LET m == CHOOSE v \in S : \A w \in S : v <= w
         IN  <<m>> \o SortAscending(S \ {m})

\* The normalisation without the Set: duplicates kept.
NormalizeTimeoutsKeepDuplicates(configured) ==
    SortBy("ascending", MapPositive(configured))

\* jsdelivr-registry.ts 34-38
NormalizeTimeouts(configured) == SortAscending(Range(MapPositive(configured)))

\* jsdelivr-registry.ts 33-40
RETRY_TIMEOUTS ==
    LET configured == NormalizeTimeouts(cfgTimeouts)
    IN  IF Len(configured) > 0 THEN configured ELSE <<DEFAULT_JSDELIVR_RETRY_TIMEOUT_MS>>

\* jsdelivr-registry.ts 42-44
RETRY_DELAYS == MapPositive(cfgDelays)

\* jsdelivr-registry.ts 46
MAX_RETRY_AFTER_DELAY_MS == RETRY_TIMEOUTS[Len(RETRY_TIMEOUTS)]

\* jsdelivr-registry.ts 107-119; parsedDelay is what parseRetryAfterMs made of
\* the header, None when the header is absent or unusable.
getRetryAfterDelay(parsedDelay) ==
    IF ~IsSome(parsedDelay) THEN None
    ELSE Some(Min(Get(parsedDelay), MAX_RETRY_AFTER_DELAY_MS))

\* The delay that is zero for an attempt without an entry of its own.
getRetryDelayNoReuse(attempt, parsedDelay) ==
    LET configuredDelay ==
            IF attempt >= Len(RETRY_DELAYS) THEN 0 ELSE RETRY_DELAYS[attempt + 1]
        retryAfterDelay == getRetryAfterDelay(parsedDelay)
    IN  IF ~IsSome(retryAfterDelay) THEN configuredDelay
        ELSE Max(configuredDelay, Get(retryAfterDelay))

\* jsdelivr-registry.ts 121-126
getRetryDelay(attempt, parsedDelay) ==
    LET configuredDelay ==
            IF Len(RETRY_DELAYS) = 0 THEN 0
            ELSE RETRY_DELAYS[Min(attempt, Len(RETRY_DELAYS) - 1) + 1]
        retryAfterDelay == getRetryAfterDelay(parsedDelay)
    IN  IF ~IsSome(retryAfterDelay) THEN configuredDelay
        ELSE Max(configuredDelay, Get(retryAfterDelay))

\* jsdelivr-registry.ts 179-180
isRetryableStatus(statusCode) ==
    statusCode = 408 \/ statusCode = 429 \/ statusCode >= 500

\* ------------------------------------------------ what the network answers
\* A CDN answer: a 200 with a version, a 200 without one (missing, not a
\* string, blank), a 200 whose body is not JSON (told apart by whether the
\* message of the parse error holds the word 'timeout'), another status (with
\* the parsed Retry-After header), or a thrown error of one of three classes.
Answer(kind, version, statusCode, parsedDelay) ==
    [kind |-> kind, version |-> version, statusCode |-> statusCode, retryAfter |-> parsedDelay]

LatestVersions == {v231, v10, vStable}
MajorVersions == {v190, v100}
RetryAfterValues == {None, Some(15)}
FailureAnswers ==
    {Answer("noVersion", vEmpty, 200, None), Answer("badJson", vEmpty, 200, None),
     Answer("badJsonNamingTimeout", vEmpty, 200, None),
     Answer("status", vEmpty, 404, None),
     Answer("timeout", vEmpty, 0, None), Answer("transient", vEmpty, 0, None),
     Answer("otherError", vEmpty, 0, None)}
    \cup {Answer("status", vEmpty, sc, ra) : sc \in {429, 503}, ra \in RetryAfterValues}

Tags == {"latest", "major"}
CdnAnswers(tag) ==
    FailureAnswers \cup
    {Answer("ok", v, 200, None) : v \in IF tag = "latest" THEN LatestVersions ELSE MajorVersions}

\* The class of an answer, as the retry loop tells them apart.
AnswerClass(answer) ==
    CASE answer.kind = "ok" -> "ok"
      [] answer.kind \in {"timeout", "transient", "badJsonNamingTimeout"} -> answer.kind
      [] answer.kind = "status" /\ isRetryableStatus(answer.statusCode) -> "retryableStatus"
      [] OTHER -> "fatal"

\* jsdelivr-registry.ts 144-160: an error is a timeout by its code, its name
\* or the word 'timeout' in its message.  The SyntaxError that JSON.parse
\* throws at 299 has a message made by the engine, which may quote the start
\* of the text it could not parse: a body that fails to parse and whose
\* message holds the word is the answer "badJsonNamingTimeout", any other
\* body that fails to parse is "badJson".
isTimeoutError(answer) == answer.kind \in {"timeout", "badJsonNamingTimeout"}
\* jsdelivr-registry.ts 162-177
isTransientNetworkError(answer) == answer.kind = "transient"
isRetryableError(answer) == isTimeoutError(answer) \/ isTransientNetworkError(answer)

\* One pass of the loop body of fetchPackageJsonFromJsdelivr (269-328) on the
\* answer to attempt `attempt`: return a value, or go round again after delay.
Return(value) == [op |-> "return", value |-> value, delay |-> 0]
Retry(delay) == [op |-> "retry", value |-> None, delay |-> delay]

\* The loop body that retries a status but never a thrown error.
AttemptNoRetryOnError(attempt, answer) ==
    IF answer.kind = "status"
    THEN IF isRetryableStatus(answer.statusCode) /\ attempt < Len(RETRY_TIMEOUTS) - 1
         THEN Retry(getRetryDelay(attempt, answer.retryAfter))
         ELSE Return(None)
    ELSE IF answer.kind = "ok" THEN Return(Some(answer.version))
    ELSE Return(None)

\* The loop body that goes round once more than there are timeouts.
AttemptOneMore(attempt, answer) ==
    IF answer.kind = "status"
    THEN IF isRetryableStatus(answer.statusCode) /\ attempt < Len(RETRY_TIMEOUTS)
         THEN Retry(getRetryDelay(attempt, answer.retryAfter))
         ELSE Return(None)
    ELSE IF answer.kind = "ok" THEN Return(Some(answer.version))
    ELSE IF answer.kind = "noVersion" THEN Return(None)
    ELSE IF isRetryableError(answer) /\ attempt < Len(RETRY_TIMEOUTS)
         THEN Retry(getRetryDelay(attempt, None))
         ELSE Return(None)

Attempt(attempt, answer) ==
    IF answer.kind = "status"
    THEN IF isRetryableStatus(answer.statusCode) /\ attempt < Len(RETRY_TIMEOUTS) - 1
         THEN Retry(getRetryDelay(attempt, answer.retryAfter))
         ELSE Return(None)
    ELSE IF answer.kind = "ok" THEN Return(Some(answer.version))
    ELSE IF answer.kind = "noVersion" THEN Return(None)
    ELSE IF isRetryableError(answer) /\ attempt < Len(RETRY_TIMEOUTS) - 1
         THEN Retry(getRetryDelay(attempt, None))
         ELSE Return(None)

\* A registry answer to the npm client: the keys of `versions` in a 2xx JSON
\* body, or a failure (network error, abort on timeout, other status, bad body).
RegistryKeyLists == {<<>>, <<v100, v231>>, <<v190, v300rc>>, <<v300rc>>}
RegistryFailures == {"networkError", "timeout", "status", "badJson"}
RegistryAnswers ==
    {[ok |-> TRUE, keys |-> k, fault |-> ""] : k \in RegistryKeyLists}
    \cup {[ok |-> FALSE, keys |-> <<>>, fault |-> f] : f \in RegistryFailures}

\* A lookup that never reads the disk tier.
cacheGetMemoryOnly(C, key) ==
    [value |-> C.memoryCache[key], cache |-> C, threw |-> FALSE]

\* ------------------------------------------------------------------ cache
\* An entry a tier holds is one that tier would still serve; an entry past its
\* TTL is an absent one.  diskIndex is the index file as loadIndex keeps it:
\* "valid" has an `entries` object; "noEntries" is JSON of the current format
\* version without one, on which `index.entries[packageName]` is a TypeError.
\* cache-manager.ts 36-55 with persistent-cache.ts 116-118: memory first, then
\* disk with a backfill of memory; `threw` when the disk lookup throws.
cacheGet(C, key) ==
    IF IsSome(C.memoryCache[key])
    THEN [value |-> C.memoryCache[key], cache |-> C, threw |-> FALSE]
    ELSE IF C.diskIndex = "noEntries"
    THEN [value |-> None, cache |-> C, threw |-> TRUE]
    ELSE IF IsSome(C.diskCache[key])
         THEN [value |-> C.diskCache[key],
               cache |-> [C EXCEPT !.memoryCache[key] = C.diskCache[key]],
               threw |-> FALSE]
         ELSE [value |-> None, cache |-> C, threw |-> FALSE]

\* A set that stores nothing.
cacheSetNothing(C, key, data) == C

\* cache-manager.ts 60-69; every call follows a cacheGet of the same key that
\* has returned, so the index is a valid one.
cacheSet(C, key, data) ==
    [C EXCEPT !.memoryCache[key] = Some(data), !.diskCache[key] = Some(data)]

\* cache-manager.ts 108-110
cacheFlush(C) == [C EXCEPT !.flushes = @ + 1]

\* ------------------------------------------- the state as one record
\* The operators below are the functions of the two clients; each takes the
\* state as a record C and gives the state after the function has run.
Cur ==
    [memoryCache |-> memoryCache, diskCache |-> diskCache, diskIndex |-> diskIndex,
     entry |-> entry, callState |-> callState, packageNames |-> packageNames,
     currentVersions |-> currentVersions, onProgress |-> onProgress,
     onBatchReady |-> onBatchReady,
     progressCallback |-> progressCallback, batchReadyCallback |-> batchReadyCallback,
     packageData |-> packageData, completedCount |-> completedCount,
     batchBuffer |-> batchBuffer, batchTimer |-> batchTimer,
     inFlightLookups |-> inFlightLookups, task |-> task, lookup |-> lookup,
     progressLog |-> progressLog, batchLog |-> batchLog, fallbackLog |-> fallbackLog,
     requests |-> requests, seen |-> seen, flushes |-> flushes,
     thrown |-> thrown, previous |-> previous]

Becomes(C) ==
    /\ memoryCache' = C.memoryCache /\ diskCache' = C.diskCache
    /\ diskIndex' = C.diskIndex
    /\ entry' = C.entry /\ callState' = C.callState
    /\ packageNames' = C.packageNames /\ currentVersions' = C.currentVersions
    /\ onProgress' = C.onProgress /\ onBatchReady' = C.onBatchReady
    /\ progressCallback' = C.progressCallback
    /\ batchReadyCallback' = C.batchReadyCallback
    /\ packageData' = C.packageData /\ completedCount' = C.completedCount
    /\ batchBuffer' = C.batchBuffer /\ batchTimer' = C.batchTimer
    /\ inFlightLookups' = C.inFlightLookups /\ task' = C.task /\ lookup' = C.lookup
    /\ progressLog' = C.progressLog /\ batchLog' = C.batchLog
    /\ fallbackLog' = C.fallbackLog /\ requests' = C.requests /\ seen' = C.seen
    /\ flushes' = C.flushes /\ thrown' = C.thrown /\ previous' = C.previous
    /\ UNCHANGED <<cfgVars, cleared, storeVars, detectorVars, selectionVars, navVars>>

IdleLookup ==
    [stage |-> "idle", attempt |-> 0, phase |-> "none", sleepMs |-> 0, retryAfter |-> None,
     latest |-> None, registry |-> None, result |-> None]

NoRequests == [latest |-> 0, major |-> 0, registry |-> 0]
\* The invocation at which each callback threw, 0 while it has not.
NothingThrown == [progress |-> 0, batch |-> 0]
NothingSeen == [latest |-> {}, major |-> {}]

\* A throw plan (pt, bt) says where the caller's callbacks throw: onProgress at
\* the invocation whose `completed` is pt, onBatchReady at its bt-th invocation
\* of the call; 0 is never.

\* emitProgress that keeps a callback that has thrown.
emitProgressKeepsCallback(C, packageName, completed, packageTotal, occ, pt) ==
    IF ~C.progressCallback THEN C
    ELSE [C EXCEPT
            !.progressLog = Append(@, [name |-> packageName, completed |-> completed,
                                       total |-> packageTotal, occ |-> occ,
                                       value |-> C.task[occ].value]),
            !.thrown.progress = IF pt = completed THEN Len(C.progressLog) + 1 ELSE @]

\* jsdelivr-registry.ts 365-376
emitProgress(C, packageName, completed, packageTotal, occ, pt) ==
    IF ~C.progressCallback THEN C
    ELSE [C EXCEPT
            !.progressLog = Append(@, [name |-> packageName, completed |-> completed,
                                       total |-> packageTotal, occ |-> occ,
                                       value |-> C.task[occ].value]),
            !.thrown.progress = IF pt = completed THEN Len(C.progressLog) + 1 ELSE @,
            !.progressCallback = (pt # completed)]

\* jsdelivr-registry.ts 378-389
emitBatch(C, batch, bt) ==
    IF ~C.batchReadyCallback THEN C
    ELSE [C EXCEPT
            !.batchLog = Append(@, batch),
            !.thrown.batch = IF bt = Len(C.batchLog) + 1 THEN bt ELSE @,
            !.batchReadyCallback = (bt # Len(C.batchLog) + 1)]

\* flushBatch that hands the buffer over without emptying it.
flushBatchKeepsBuffer(C, bt) ==
    LET C1 == IF Len(C.batchBuffer) > 0 THEN emitBatch(C, C.batchBuffer, bt) ELSE C
    IN  [C1 EXCEPT !.batchTimer = FALSE]

\* flushBatch that leaves the timer armed.
flushBatchKeepsTimer(C, bt) ==
    IF Len(C.batchBuffer) > 0
    THEN emitBatch([C EXCEPT !.batchBuffer = <<>>], C.batchBuffer, bt)
    ELSE C

\* jsdelivr-registry.ts 392-402
flushBatch(C, bt) ==
    LET C1 == IF Len(C.batchBuffer) > 0
              THEN emitBatch([C EXCEPT !.batchBuffer = <<>>], C.batchBuffer, bt)
              ELSE C
    IN  [C1 EXCEPT !.batchTimer = FALSE]

\* addToBatch that hands the buffer over once it holds more than BATCH_SIZE.
addToBatchFlushesLate(C, occ, packageName, data, bt) ==
    IF ~C.batchReadyCallback THEN C
    ELSE LET C1 == [C EXCEPT !.batchBuffer =
                        Append(@, [occ |-> occ, name |-> packageName, data |-> data])]
         IN  IF Len(C1.batchBuffer) > BATCH_SIZE THEN flushBatch(C1, bt)
             ELSE IF ~C1.batchTimer THEN [C1 EXCEPT !.batchTimer = TRUE]
             ELSE C1

\* addToBatch that leaves the timer alone.
addToBatchNoTimer(C, occ, packageName, data, bt) ==
    IF ~C.batchReadyCallback THEN C
    ELSE LET C1 == [C EXCEPT !.batchBuffer =
                        Append(@, [occ |-> occ, name |-> packageName, data |-> data])]
         IN  IF Len(C1.batchBuffer) >= BATCH_SIZE THEN flushBatch(C1, bt) ELSE C1

\* jsdelivr-registry.ts 405-419; the item carries the input position it is for.
addToBatch(C, occ, packageName, data, bt) ==
    IF ~C.batchReadyCallback THEN C
    ELSE LET C1 == [C EXCEPT !.batchBuffer =
                        Append(@, [occ |-> occ, name |-> packageName, data |-> data])]
         IN  IF Len(C1.batchBuffer) >= BATCH_SIZE THEN flushBatch(C1, bt)
             ELSE IF ~C1.batchTimer THEN [C1 EXCEPT !.batchTimer = TRUE]
             ELSE C1

\* jsdelivr-registry.ts 514-525: fetchPackageWithFallback from the point where
\* getPackageData has given `result` to input position occ.
CompleteOccurrence(C, occ, result, pt, bt) ==
    LET packageName == C.packageNames[occ]
        C1 == [C EXCEPT !.task[occ] = [pc |-> "done", value |-> result]]
        C2 == IF IsSome(result)
              THEN addToBatch([C1 EXCEPT !.packageData[packageName] = result],
                              occ, packageName, Get(result), bt)
              ELSE C1
        C3 == [C2 EXCEPT !.completedCount = @ + 1]
    IN  emitProgress(C3, packageName, C3.completedCount, Len(C.packageNames), occ, pt)

\* The input positions whose state is in pcs, in input order.
RECURSIVE Positions(_, _, _)
Positions(C, pcs, from) ==
    IF from > Len(C.packageNames) THEN <<>>
    ELSE (IF C.task[from].pc \in pcs THEN <<from>> ELSE <<>>) \o Positions(C, pcs, from + 1)

AllDone(C) == \A i \in 1..Len(C.packageNames) : C.task[i].pc = "done"

\* jsdelivr-registry.ts 528-544: Promise.all has resolved.
FinishJsdelivr(C, bt) ==
    IF AllDone(C) /\ C.callState = "running"
    THEN [cacheFlush(flushBatch(C, bt)) EXCEPT !.callState = "returned"]
    ELSE C

\* jsdelivr-registry.ts 493-502: what the await of getPackageData gives input
\* position occ: its own cache hit (or nothing, after a throw), or the result
\* of the lookup it shares.
AwaitedResult(C, occ) ==
    IF C.task[occ].pc = "waiting" THEN C.lookup[C.packageNames[occ]].result
    ELSE C.task[occ].value

\* The continuations of the positions in `occs`, in order, each with the
\* result its await gives it.
RECURSIVE CompleteAll(_, _, _, _)
CompleteAll(C, occs, pt, bt) ==
    IF occs = <<>> THEN C
    ELSE CompleteAll(CompleteOccurrence(C, Head(occs), AwaitedResult(C, Head(occs)), pt, bt),
                     Tail(occs), pt, bt)

WaitersOf(C, packageName) ==
    SelectSeq(Positions(C, {"waiting"}, 1), LAMBDA i : C.packageNames[i] = packageName)

\* A variant that holds a settled lookup's waiters back while any other lookup
\* is still in flight.
SettleLookupAfterAll(C, packageName, result, pt, bt) ==
    LET C1 == [C EXCEPT !.lookup[packageName].stage = "settled",
                        !.lookup[packageName].phase = "none",
                        !.lookup[packageName].result = result,
                        !.inFlightLookups = @ \ {packageName}]
    IN  IF C1.inFlightLookups = {}
        THEN FinishJsdelivr(CompleteAll(C1, Positions(C1, {"waiting"}, 1), pt, bt), bt)
        ELSE C1

\* jsdelivr-registry.ts 504-508 and 514: the lookup promise of packageName
\* settles with `result`; the entry leaves inFlightLookups and every position
\* awaiting the promise goes on, in the order the awaits were made.
SettleLookup(C, packageName, result, pt, bt) ==
    LET C1 == [C EXCEPT !.lookup[packageName].stage = "settled",
                        !.lookup[packageName].phase = "none",
                        !.lookup[packageName].result = result,
                        !.inFlightLookups = @ \ {packageName}]
    IN  FinishJsdelivr(CompleteAll(C1, WaitersOf(C1, packageName), pt, bt), bt)

\* ------------------------------------------------------ the npm client
\* npm-registry.ts 40-71 and 75-78: what fetchPackageFromRegistry makes of the
\* registry's answer, and the cache after it.
RegistryData(answer) == IF answer.ok THEN ComposeRegistryData(answer.keys) ELSE Sentinel

AfterRegistryAnswer(C, packageName, answer) ==
    IF answer.ok THEN cacheSet(C, packageName, RegistryData(answer)) ELSE C

\* ------------------------------------------------------ the CDN client
\* jsdelivr-registry.ts 269-281: attempt `attempt` of the request for a tag.
IssueRequest(C, packageName, stage, attempt) ==
    [C EXCEPT !.lookup[packageName].stage = stage,
              !.lookup[packageName].attempt = attempt,
              !.lookup[packageName].phase = "request",
              !.lookup[packageName].sleepMs = 0,
              !.lookup[packageName].retryAfter = None,
              !.requests[packageName][stage] = @ + 1]

\* The fallback that returns what the npm client gave without storing it.
FallbackResolvedNotStored(C, packageName, data, pt, bt) ==
    LET C1 == cacheFlush(C)
        result == Some(data)
        C2 == [C1 EXCEPT !.lookup[packageName].registry = result]
    IN  SettleLookup(C2, packageName, result, pt, bt)

\* jsdelivr-registry.ts 428-438 after getAllPackageData([packageName]) has
\* resolved with a map holding `data` for the package: npm-registry.ts 103-123
\* (no onProgress was passed), then the store and the return.
FallbackResolved(C, packageName, data, pt, bt) ==
    LET C1 == cacheFlush(C)
        result == Some(data)
        C2 == cacheSet([C1 EXCEPT !.lookup[packageName].registry = result],
                       packageName, data)
    IN  SettleLookup(C2, packageName, result, pt, bt)

\* jsdelivr-registry.ts 424-428 with npm-registry.ts 86-102 and 10-32:
\* the fallback calls getAllPackageData([packageName]).
fetchFromNpmFallback(C, packageName, pt, bt) ==
    LET C1 == [C EXCEPT !.fallbackLog =
                   Append(@, [args |-> <<packageName>>,
                              cdnRequests |-> C.requests[packageName].latest,
                              cdnAttempt |-> C.lookup[packageName].attempt])]
        got == cacheGet(C1, packageName)
    IN  IF IsSome(got.value)
        THEN FallbackResolved(got.cache, packageName, Get(got.value), pt, bt)
        ELSE [got.cache EXCEPT !.lookup[packageName].stage = "registry",
                               !.lookup[packageName].phase = "request",
                               !.requests[packageName].registry = @ + 1]

\* jsdelivr-registry.ts 465-483
ComposeAndStore(C, packageName, latestVersion, majorResult, pt, bt) ==
    LET result == ComposeCdnData(latestVersion, majorResult)
    IN  SettleLookup(cacheSet(C, packageName, result), packageName, Some(result), pt, bt)

\* The decision that ignores the major of the latest version.
shouldFetchMajorVersionAlways(majorVersion, latestMajorVersion) == IsSome(majorVersion)

\* jsdelivr-registry.ts 459-461
shouldFetchMajorVersion(majorVersion, latestMajorVersion) ==
    IsSome(majorVersion) /\ (~IsSome(latestMajorVersion) \/ majorVersion # latestMajorVersion)

\* The continuation that also falls back when the major tag gave nothing.
AfterMajorFallback(C, packageName, majorResult, pt, bt) ==
    IF IsSome(majorResult)
    THEN ComposeAndStore(C, packageName, Get(C.lookup[packageName].latest), majorResult, pt, bt)
    ELSE fetchFromNpmFallback(C, packageName, pt, bt)

\* jsdelivr-registry.ts 462-483: the major-tag fetch has returned majorResult.
AfterMajor(C, packageName, majorResult, pt, bt) ==
    ComposeAndStore(C, packageName, Get(C.lookup[packageName].latest), majorResult, pt, bt)

\* jsdelivr-registry.ts 452-464: the fetch of tag 'latest' has returned.
AfterLatest(C, packageName, latestResult, pt, bt) ==
    IF ~IsSome(latestResult) THEN fetchFromNpmFallback(C, packageName, pt, bt)
    ELSE LET latestVersion == Get(latestResult)
             majorVersion == extractMajorVersion(C.currentVersions[packageName])
             latestMajorVersion == extractMajorVersion(Some(latestVersion))
             C1 == [C EXCEPT !.lookup[packageName].latest = latestResult]
         IN  IF shouldFetchMajorVersion(majorVersion, latestMajorVersion)
             THEN IssueRequest(C1, packageName, "major", 0)
             ELSE ComposeAndStore(C1, packageName, latestVersion, None, pt, bt)

\* jsdelivr-registry.ts 445-487: fetchFreshPackageData from the point where
\* the fetch of the tag of the lookup's stage has returned tagResult.
TagReturned(C, packageName, tagResult, pt, bt) ==
    IF C.lookup[packageName].stage = "latest"
    THEN AfterLatest(C, packageName, tagResult, pt, bt)
    ELSE AfterMajor(C, packageName, tagResult, pt, bt)

\* The answer handled without the sleep before a retry.
OnCdnAnswerNoBackoff(C, packageName, answer, pt, bt) ==
    LET L == C.lookup[packageName]
        step == Attempt(L.attempt, answer)
        C1 == [C EXCEPT !.seen[packageName][L.stage] = @ \cup {AnswerClass(answer)}]
    IN  IF step.op = "retry"
        THEN IssueRequest(C1, packageName, L.stage, L.attempt + 1)
        ELSE TagReturned(C1, packageName, step.value, pt, bt)

\* jsdelivr-registry.ts 269-328: the answer to the outstanding attempt.
OnCdnAnswer(C, packageName, answer, pt, bt) ==
    LET L == C.lookup[packageName]
        step == Attempt(L.attempt, answer)
        C1 == [C EXCEPT !.seen[packageName][L.stage] = @ \cup {AnswerClass(answer)}]
    IN  IF step.op = "retry"
        THEN IF step.delay > 0
             THEN [C1 EXCEPT !.lookup[packageName].phase = "sleep",
                             !.lookup[packageName].sleepMs = step.delay,
                             !.lookup[packageName].retryAfter =
                                 IF answer.kind = "status" THEN answer.retryAfter
                                 ELSE None]
             ELSE IssueRequest(C1, packageName, L.stage, L.attempt + 1)
        ELSE TagReturned(C1, packageName, step.value, pt, bt)

\* getPackageData without the in-flight map: every miss starts a lookup.
StartOccurrenceNoCoalescing(C, occ) ==
    LET packageName == C.packageNames[occ]
        got == cacheGet(C, packageName)
        C1 == got.cache
    IN  IF got.threw
        THEN [C1 EXCEPT !.task[occ] = [pc |-> "threw", value |-> None]]
        ELSE IF IsSome(got.value)
        THEN [C1 EXCEPT !.task[occ] = [pc |-> "cached", value |-> got.value]]
        ELSE IssueRequest([C1 EXCEPT !.task[occ] = [pc |-> "waiting", value |-> None],
                                     !.inFlightLookups = @ \cup {packageName}],
                          packageName, "latest", 0)

\* jsdelivr-registry.ts 489-509 with 511-514: the synchronous part of
\* fetchPackageWithFallback for input position occ.  A throw of
\* packageCache.get rejects getPackageData's promise; the catch at 520-522
\* takes it and the position completes without a result.
StartOccurrence(C, occ) ==
    LET packageName == C.packageNames[occ]
        got == cacheGet(C, packageName)
        C1 == got.cache
    IN  IF got.threw
        THEN [C1 EXCEPT !.task[occ] = [pc |-> "threw", value |-> None]]
        ELSE IF IsSome(got.value)
        THEN [C1 EXCEPT !.task[occ] = [pc |-> "cached", value |-> got.value]]
        ELSE IF packageName \in C1.inFlightLookups
        THEN [C1 EXCEPT !.task[occ] = [pc |-> "waiting", value |-> None]]
        ELSE IssueRequest([C1 EXCEPT !.task[occ] = [pc |-> "waiting", value |-> None],
                                     !.inFlightLookups = @ \cup {packageName}],
                          packageName, "latest", 0)

\* jsdelivr-registry.ts 528: packageNames.map(fetchPackageWithFallback)
RECURSIVE StartAll(_, _)
StartAll(C, from) ==
    IF from > Len(C.packageNames) THEN C
    ELSE StartAll(StartOccurrence(C, from), from + 1)

FreshCall(C, which, names, versions, progress, batchReady) ==
    [C EXCEPT !.entry = which, !.callState = "running", !.packageNames = names,
              !.currentVersions = versions, !.onProgress = progress,
              !.onBatchReady = batchReady, !.progressCallback = progress,
              !.batchReadyCallback = batchReady,
              !.task = [i \in 1..Len(names) |-> [pc |-> "start", value |-> None]]]

\* jsdelivr-registry.ts 344-545 up to the first await that is left pending:
\* the map over packageNames, then the continuations of the cache hits.
getAllPackageDataFromJsdelivr(C, names, versions, progress, batchReady, pt, bt) ==
    IF Len(names) = 0
    THEN [FreshCall(C, "jsdelivr", names, versions, progress, batchReady)
             EXCEPT !.callState = "returned"]
    ELSE LET C1 == StartAll(FreshCall(C, "jsdelivr", names, versions, progress, batchReady), 1)
         IN  FinishJsdelivr(CompleteAll(C1, Positions(C1, {"cached", "threw"}, 1), pt, bt), bt)

\* npm-registry.ts 101-102 with 10-32: the synchronous part of the mapper for
\* input position occ.  packageCache.get (14) is outside the try: its throw
\* rejects the mapper's promise, and with it Promise.all (113) and the call.
StartRegistryFetch(C, occ) ==
    LET packageName == C.packageNames[occ]
        got == cacheGet(C, packageName)
    IN  IF got.threw
        THEN [C EXCEPT !.task[occ] = [pc |-> "threw", value |-> None],
                       !.callState = "rejected"]
        ELSE IF IsSome(got.value)
        THEN [got.cache EXCEPT !.task[occ] = [pc |-> "cached", value |-> got.value]]
        ELSE [got.cache EXCEPT !.task[occ] = [pc |-> "fetching", value |-> None],
                               !.requests[packageName].registry = @ + 1]

\* npm-registry.ts 101: packageNames.map of the mapper
RECURSIVE StartAllRegistry(_, _)
StartAllRegistry(C, from) ==
    IF from > Len(C.packageNames) THEN C
    ELSE StartAllRegistry(StartRegistryFetch(C, from), from + 1)

\* npm-registry.ts 102-109: the mapper from the point where
\* fetchPackageFromRegistry has given `data`; a throw of onProgress rejects
\* the mapper's promise, and with it Promise.all and the call.
CompleteRegistryFetch(C, occ, data, pt) ==
    LET packageName == C.packageNames[occ]
        C1 == [C EXCEPT !.task[occ] = [pc |-> "done", value |-> Some(data)],
                        !.packageData[packageName] = Some(data),
                        !.completedCount = @ + 1]
    IN  IF ~C1.onProgress THEN C1
        ELSE [C1 EXCEPT
                !.progressLog = Append(@, [name |-> packageName,
                                           completed |-> C1.completedCount,
                                           total |-> Len(C.packageNames), occ |-> occ,
                                           value |-> Some(data)]),
                !.thrown.progress = IF pt = C1.completedCount /\ @ = 0
                                    THEN Len(C.progressLog) + 1 ELSE @,
                !.callState = IF pt = C1.completedCount THEN "rejected" ELSE @]

\* npm-registry.ts 113-123: Promise.all has resolved.
FinishRegistry(C) ==
    IF AllDone(C) /\ C.callState = "running"
    THEN [cacheFlush(C) EXCEPT !.callState = "returned"]
    ELSE C

RECURSIVE CompleteCachedRegistry(_, _, _)
CompleteCachedRegistry(C, occs, pt) ==
    IF occs = <<>> THEN C
    ELSE CompleteCachedRegistry(
             CompleteRegistryFetch(C, Head(occs), Get(C.task[Head(occs)].value), pt),
             Tail(occs), pt)

\* npm-registry.ts 86-124 up to the first await that is left pending.
getAllPackageData(C, names, progress, pt) ==
    IF Len(names) = 0
    THEN [FreshCall(C, "npm", names, C.currentVersions, progress, FALSE)
             EXCEPT !.callState = "returned"]
    ELSE LET C1 == StartAllRegistry(FreshCall(C, "npm", names, C.currentVersions, progress, FALSE), 1)
         IN  FinishRegistry(CompleteCachedRegistry(C1, Positions(C1, {"cached"}, 1), pt))

\* ------------------------------------------- the cache tiers in detail
\* A package name is the sequence of its parts, "@s/n" being
\* <<"@", "s", "/", "n">> and "s__n" being <<"s", "__", "n">>; a file name is
\* built in the same way.
\* persistent-cache.ts 107-111
getFilename(packageName) ==
    LET safeName == IF Len(packageName) > 0 /\ packageName[1] = "@"
                    THEN Tail(packageName) ELSE packageName
    IN  [i \in 1..Len(safeName) |-> IF safeName[i] = "/" THEN "__" ELSE safeName[i]]
            \o <<".json">>

\* persistent-cache.ts 44: the index is the file index.json of the directory
\* that also holds the data files.
INDEX_FILE == <<"index", ".json">>

\* What a file holds: the JSON of a package entry, the JSON of an index (its
\* entries object a sequence in insertion order, or missing), or text that
\* is not JSON.
EntryFile(data) == [kind |-> "entry", data |-> Some(data), version |-> 0, entries |-> None]
IndexFile(idx) ==
    [kind |-> "index", data |-> None, version |-> idx.version, entries |-> idx.entries]
CorruptFile == [kind |-> "corrupt", data |-> None, version |-> 0, entries |-> None]
NoFiles == [f \in {} |-> CorruptFile]
NoMemory == [key \in {} |-> [data |-> Sentinel, timestamp |-> 0]]
IndexEntry(packageName, timestamp) ==
    [name |-> packageName, file |-> getFilename(packageName), timestamp |-> timestamp]
\* persistent-cache.ts 72 and 83
FreshIndex == [version |-> CACHE_VERSION, entries |-> Some(<<>>)]
\* What reading latestVersion and allVersions gives on an object that has
\* neither field.
NoFields == Data(Word("undefined"), <<>>)

\* What a cache operation gives back: the state after it, the value or count
\* returned, and whether it threw.
Result(store, value, count, threw) ==
    [store |-> store, value |-> value, entries |-> count, threw |-> threw]

\* A variant that forgets the entries and leaves the files.
clearCacheKeepsFiles(S) == [S EXCEPT !.index = Some(FreshIndex), !.dirty = TRUE]

\* A variant that deletes the files and keeps the index it has loaded.
clearCacheKeepsIndex(S) ==
    [S EXCEPT !.files = NoFiles,
              !.index = IF IsSome(S.index) THEN S.index ELSE Some(FreshIndex),
              !.dirty = TRUE]

\* persistent-cache.ts 245-263
clearCache(S) == [S EXCEPT !.files = NoFiles, !.index = Some(FreshIndex), !.dirty = TRUE]

\* persistent-cache.ts 59-85
loadIndex(S) ==
    IF IsSome(S.index) THEN S
    ELSE IF INDEX_FILE \notin DOMAIN S.files \/ S.files[INDEX_FILE].kind = "corrupt"
    THEN [S EXCEPT !.index = Some(FreshIndex)]
    ELSE IF \/ S.files[INDEX_FILE].kind = "entry"
            \/ S.files[INDEX_FILE].version # CACHE_VERSION
    THEN clearCache(S)
    ELSE [S EXCEPT !.index = Some([version |-> S.files[INDEX_FILE].version,
                                   entries |-> S.files[INDEX_FILE].entries])]

\* persistent-cache.ts 90-102 and 268-270
saveIndex(S) ==
    IF ~S.dirty \/ ~IsSome(S.index) THEN S
    ELSE [S EXCEPT !.files = (INDEX_FILE :> IndexFile(Get(S.index))) @@ @,
                   !.dirty = FALSE]

\* The entries without those of the given names.
WithoutEntries(entries, names) == SelectSeq(entries, LAMBDA e : e.name \notin names)
\* index.entries[packageName] = entry, on an object that keeps insertion order.
PutEntry(entries, item) ==
    IF \E i \in 1..Len(entries) : entries[i].name = item.name
    THEN [i \in 1..Len(entries) |->
             IF entries[i].name = item.name THEN item ELSE entries[i]]
    ELSE Append(entries, item)

\* persistent-cache.ts 218-240; the sort is stable, so that entries of one
\* timestamp go in insertion order.
evictOldest(S, count) ==
    LET idx == Get(S.index)
        entries == Get(idx.entries)
        Before(j, i) ==
            \/ entries[j].timestamp < entries[i].timestamp
            \/ entries[j].timestamp = entries[i].timestamp /\ j < i
        toRemove == {i \in 1..Len(entries) :
                        Cardinality({j \in 1..Len(entries) : Before(j, i)}) < count}
    IN  [S EXCEPT !.files = [f \in DOMAIN @ \ {entries[i].file : i \in toRemove} |-> @[f]],
                  !.index = Some([idx EXCEPT !.entries =
                      Some(WithoutEntries(entries, {entries[i].name : i \in toRemove}))]),
                  !.dirty = TRUE]

\* A variant that forgets every entry when one data file is damaged.
persistentGetDropsAll(S, packageName) ==
    LET S1 == loadIndex(S)
        idx == Get(S1.index)
    IN  IF ~IsSome(idx.entries) THEN Result(S1, None, 0, TRUE)
        ELSE
        LET entries == Get(idx.entries)
            found == SelectSeq(entries, LAMBDA e : e.name = packageName)
            dropped == [S1 EXCEPT !.index = Some([idx EXCEPT !.entries =
                                        Some(WithoutEntries(entries, {packageName}))]),
                                  !.dirty = TRUE]
        IN  IF found = <<>> THEN Result(S1, None, 0, FALSE)
            ELSE IF S1.now - found[1].timestamp > DISK_CACHE_TTL
            THEN Result(dropped, None, 0, FALSE)
            ELSE IF \/ found[1].file \notin DOMAIN S1.files
                    \/ S1.files[found[1].file].kind = "corrupt"
            THEN Result([S1 EXCEPT !.index = Some(FreshIndex), !.dirty = TRUE],
                        None, 0, FALSE)
            ELSE IF S1.files[found[1].file].kind = "entry"
            THEN Result(S1, S1.files[found[1].file].data, 0, FALSE)
            ELSE Result(S1, Some(NoFields), 0, FALSE)

\* persistent-cache.ts 116-154
persistentGet(S, packageName) ==
    LET S1 == loadIndex(S)
        idx == Get(S1.index)
    IN  IF ~IsSome(idx.entries) THEN Result(S1, None, 0, TRUE)
        ELSE
        LET entries == Get(idx.entries)
            found == SelectSeq(entries, LAMBDA e : e.name = packageName)
            dropped == [S1 EXCEPT !.index = Some([idx EXCEPT !.entries =
                                        Some(WithoutEntries(entries, {packageName}))]),
                                  !.dirty = TRUE]
        IN  IF found = <<>> THEN Result(S1, None, 0, FALSE)
            ELSE IF S1.now - found[1].timestamp > DISK_CACHE_TTL
            THEN Result(dropped, None, 0, FALSE)
            ELSE IF \/ found[1].file \notin DOMAIN S1.files
                    \/ S1.files[found[1].file].kind = "corrupt"
            THEN Result(dropped, None, 0, FALSE)
            ELSE IF S1.files[found[1].file].kind = "entry"
            THEN Result(S1, S1.files[found[1].file].data, 0, FALSE)
            ELSE Result(S1, Some(NoFields), 0, FALSE)

\* A variant that inserts without making room.
persistentSetNoEviction(S, packageName, data) ==
    LET S1 == loadIndex(S)
        idx == Get(S1.index)
    IN  IF ~IsSome(idx.entries) THEN Result(S1, None, 0, TRUE)
        ELSE Result([S1 EXCEPT
                 !.files = (getFilename(packageName) :> EntryFile(data)) @@ @,
                 !.index = Some([idx EXCEPT !.entries =
                     Some(PutEntry(Get(idx.entries), IndexEntry(packageName, S1.now)))]),
                 !.dirty = TRUE], None, 0, FALSE)

\* persistent-cache.ts 159-187
persistentSet(S, packageName, data) ==
    LET S1 == loadIndex(S)
    IN  IF ~IsSome(Get(S1.index).entries) THEN Result(S1, None, 0, TRUE)
        ELSE
        LET S2 == IF Len(Get(Get(S1.index).entries)) >= MaxCacheEntries
                  THEN evictOldest(S1, MaxCacheEntries \div 10) ELSE S1
            idx == Get(S2.index)
        IN  Result([S2 EXCEPT
                !.files = (getFilename(packageName) :> EntryFile(data)) @@ @,
                !.index = Some([idx EXCEPT !.entries =
                    Some(PutEntry(Get(idx.entries), IndexEntry(packageName, S2.now)))]),
                !.dirty = TRUE], None, 0, FALSE)

\* persistent-cache.ts 275-281
getStats(S) ==
    LET S1 == loadIndex(S)
    IN  IF ~IsSome(Get(S1.index).entries) THEN Result(S1, None, 0, TRUE)
        ELSE Result(S1, None, Len(Get(Get(S1.index).entries)), FALSE)

\* A variant whose memory copy is still served when its age is the TTL.
CacheManagerGetServesAtTtl(S, key) ==
    IF key \in DOMAIN S.timedMemory /\ S.now - S.timedMemory[key].timestamp <= CACHE_TTL
    THEN Result(S, Some(S.timedMemory[key].data), 0, FALSE)
    ELSE LET diskCached == persistentGet(S, key)
         IN  IF diskCached.threw \/ ~IsSome(diskCached.value) THEN diskCached
             ELSE Result([diskCached.store EXCEPT !.timedMemory =
                             (key :> [data |-> Get(diskCached.value),
                                      timestamp |-> S.now]) @@ @],
                         diskCached.value, 0, FALSE)

\* cache-manager.ts 36-55, with the timestamps of the memory tier
CacheManagerGet(S, key) ==
    IF key \in DOMAIN S.timedMemory /\ S.now - S.timedMemory[key].timestamp < CACHE_TTL
    THEN Result(S, Some(S.timedMemory[key].data), 0, FALSE)
    ELSE LET diskCached == persistentGet(S, key)
         IN  IF diskCached.threw \/ ~IsSome(diskCached.value) THEN diskCached
             ELSE Result([diskCached.store EXCEPT !.timedMemory =
                             (key :> [data |-> Get(diskCached.value),
                                      timestamp |-> S.now]) @@ @],
                         diskCached.value, 0, FALSE)

\* cache-manager.ts 60-69
CacheManagerSet(S, key, data) ==
    persistentSet([S EXCEPT !.timedMemory =
                      (key :> [data |-> data, timestamp |-> S.now]) @@ @], key, data)

\* cache-manager.ts 101-103
CacheManagerClear(S) == [S EXCEPT !.timedMemory = NoMemory]

\* ------------------------------------------------------------- inputs
\* The retry configuration of the test suite: timeouts [10, 20] ms, delays [1] ms.
TestTimeouts == <<20, 40>>
TestDelays == <<2>>

NoVersions == [n \in Names |-> None]
\* Data an earlier run has left in the cache.
dCdn == ComposeCdnData(v231, Some(v190))
NoCache == [n \in Names |-> None]
CacheSeeds ==
    {[memory |-> NoCache, disk |-> NoCache, index |-> "valid"],
     [memory |-> [NoCache EXCEPT !["a"] = Some(dCdn)],
      disk |-> [NoCache EXCEPT !["a"] = Some(dCdn)], index |-> "valid"],
     [memory |-> NoCache, disk |-> [NoCache EXCEPT !["b"] = Some(Sentinel)], index |-> "valid"],
     [memory |-> NoCache, disk |-> NoCache, index |-> "noEntries"]}

ProgressPlans(C) ==
    {0} \cup IF C.progressCallback \/ C.callState = "idle" \/ C.entry = "npm"
             THEN (C.completedCount + 1)..MaxPackages ELSE {}
BatchPlans(C) ==
    {0} \cup IF C.batchReadyCallback \/ C.callState = "idle"
             THEN (Len(C.batchLog) + 1)..(Len(C.batchLog) + (MaxPackages \div BATCH_SIZE) + 1)
             ELSE {}

\* ------------------------------------------------------------- the machine
InitWith(timeouts, delays, seeds) ==
    /\ cfgTimeouts \in timeouts /\ cfgDelays \in delays
    /\ \E seed \in seeds :
          memoryCache = seed.memory /\ diskCache = seed.disk /\ diskIndex = seed.index
    /\ entry = "none" /\ callState = "idle" /\ packageNames = <<>>
    /\ currentVersions = NoVersions /\ onProgress = FALSE /\ onBatchReady = FALSE
    /\ progressCallback = FALSE /\ batchReadyCallback = FALSE
    /\ packageData = [n \in Names |-> None] /\ completedCount = 0
    /\ batchBuffer = <<>> /\ batchTimer = FALSE /\ inFlightLookups = {}
    /\ task = <<>> /\ lookup = [n \in Names |-> IdleLookup]
    /\ progressLog = <<>> /\ batchLog = <<>> /\ fallbackLog = <<>>
    /\ requests = [n \in Names |-> NoRequests] /\ seen = [n \in Names |-> NothingSeen]
    /\ flushes = 0 /\ thrown = NothingThrown /\ cleared = FALSE /\ previous = None

CallJsdelivrWith(lists, maps) ==
    /\ callState = "idle"
    /\ \E names \in lists, versions \in maps, progress \in BOOLEAN, batchReady \in BOOLEAN :
         \E pt \in ProgressPlans(Cur), bt \in BatchPlans(Cur) :
            Becomes(getAllPackageDataFromJsdelivr(Cur, names, versions, progress,
                                                  batchReady, pt, bt))

\* The locals and the observations of a call that is about to be made after
\* the call in C has returned: jsdelivr-registry.ts 349-350, 365 and 421 are
\* per call, the cache (cache-manager.ts 124) is per process.
NextCallState(C) ==
    [C EXCEPT !.previous = Some([data |-> C.packageData, requests |-> C.requests]),
              !.packageData = [n \in Names |-> None], !.completedCount = 0,
              !.batchBuffer = <<>>, !.batchTimer = FALSE, !.inFlightLookups = {},
              !.lookup = [n \in Names |-> IdleLookup],
              !.progressLog = <<>>, !.batchLog = <<>>, !.fallbackLog = <<>>,
              !.requests = [n \in Names |-> NoRequests],
              !.seen = [n \in Names |-> NothingSeen],
              !.flushes = 0, !.thrown = NothingThrown]

\* getAllPackageDataFromJsdelivr is called again, right after it has returned,
\* with the arguments of the first call and callbacks that do not throw.
CallJsdelivrAgain ==
    /\ callState = "returned" /\ entry = "jsdelivr" /\ previous = None
    /\ Becomes(getAllPackageDataFromJsdelivr(NextCallState(Cur), packageNames,
                                             currentVersions, onProgress, onBatchReady,
                                             0, 0))

CallNpmWith(lists) ==
    /\ callState = "idle"
    /\ \E names \in lists, progress \in BOOLEAN :
         \E pt \in ProgressPlans(Cur) :
            Becomes(getAllPackageData(Cur, names, progress, pt))

CdnResponseWith(answers) ==
    /\ entry = "jsdelivr" /\ callState = "running"
    /\ \E n \in Names :
         /\ lookup[n].stage \in {"latest", "major"} /\ lookup[n].phase = "request"
         /\ \E answer \in answers[lookup[n].stage] :
              \E pt \in ProgressPlans(Cur), bt \in BatchPlans(Cur) :
                 Becomes(OnCdnAnswer(Cur, n, answer, pt, bt))

\* jsdelivr-registry.ts 289-292 and 310-313: the sleep before a retry is over.
SleepElapsed ==
    /\ entry = "jsdelivr" /\ callState = "running"
    /\ \E n \in Names :
         /\ lookup[n].phase = "sleep"
         /\ Becomes(IssueRequest(Cur, n, lookup[n].stage, lookup[n].attempt + 1))

FallbackResponseWith(answers) ==
    /\ entry = "jsdelivr" /\ callState = "running"
    /\ \E n \in Names :
         /\ lookup[n].stage = "registry"
         /\ \E answer \in answers :
              \E pt \in ProgressPlans(Cur), bt \in BatchPlans(Cur) :
                 Becomes(FallbackResolved(AfterRegistryAnswer(Cur, n, answer), n,
                                          RegistryData(answer), pt, bt))

RegistryResponseWith(answers) ==
    /\ entry = "npm" /\ callState \in {"running", "rejected"}
    /\ \E i \in 1..Len(packageNames) :
         /\ task[i].pc = "fetching"
         /\ \E answer \in answers :
              \E pt \in ProgressPlans(Cur) :
                 Becomes(FinishRegistry(CompleteRegistryFetch(
                     AfterRegistryAnswer(Cur, packageNames[i], answer), i,
                     RegistryData(answer), pt)))

\* jsdelivr-registry.ts 417: the batch timer fires.
BatchTimerFires ==
    /\ batchTimer
    /\ \E bt \in BatchPlans(Cur) : Becomes(flushBatch(Cur, bt))

\* ---------------------------------------------- the cache tiers, operated
Store ==
    [files |-> files, index |-> index, dirty |-> dirty, timedMemory |-> timedMemory,
     now |-> now]
callVars == <<cfgVars, cacheVars, argVars, localVars, logVars, cleared, previous>>

\* No call of the clients is made.
NoCall ==
    InitWith({TestTimeouts}, {TestDelays},
             {[memory |-> NoCache, disk |-> NoCache, index |-> "valid"]})

\* The state of a process that has not touched the cache, over a directory.
StoreInit(dirs, start) ==
    /\ files \in dirs /\ index = None /\ dirty = FALSE
    /\ timedMemory = NoMemory /\ now = start /\ trace = <<>>
NoStore == StoreInit({NoFiles}, 0)

\* The operation `op` has run with result r.
StoreBecomes(r, op, key, data) ==
    /\ Len(trace) < MaxCacheOps
    /\ files' = r.store.files /\ index' = r.store.index /\ dirty' = r.store.dirty
    /\ timedMemory' = r.store.timedMemory /\ now' = r.store.now
    /\ trace' = Append(trace, [op |-> op, key |-> key, data |-> data, value |-> r.value,
                               entries |-> r.entries, threw |-> r.threw, at |-> now])
    /\ UNCHANGED <<callVars, detectorVars, selectionVars, navVars>>

PersistentGetOf(keys) ==
    \E key \in keys : StoreBecomes(persistentGet(Store, key), "get", key, None)
PersistentSetOf(keys, values) ==
    \E key \in keys, data \in values :
        StoreBecomes(persistentSet(Store, key, data), "set", key, Some(data))
Flush == StoreBecomes(Result(saveIndex(Store), None, 0, FALSE), "flush", <<>>, None)
GetStats == StoreBecomes(getStats(Store), "getStats", <<>>, None)
ClearCache == StoreBecomes(Result(clearCache(Store), None, 0, FALSE), "clearCache", <<>>, None)
ManagerGetOf(keys) ==
    \E key \in keys : StoreBecomes(CacheManagerGet(Store, key), "get", key, None)
ManagerSetOf(keys, values) ==
    \E key \in keys, data \in values :
        StoreBecomes(CacheManagerSet(Store, key, data), "set", key, Some(data))
ManagerClear == StoreBecomes(Result(CacheManagerClear(Store), None, 0, FALSE), "clear", <<>>, None)
\* A new process over the same directory: persistent-cache.ts 38-39 and 285,
\* cache-manager.ts 25 and 124.
NewInstance ==
    StoreBecomes(Result([Store EXCEPT !.index = None, !.dirty = FALSE,
                                      !.timedMemory = NoMemory], None, 0, FALSE),
                 "newInstance", <<>>, None)
ClockAdvancesBy(jumps) ==
    \E jump \in jumps :
        StoreBecomes(Result([Store EXCEPT !.now = @ + jump], None, 0, FALSE),
                     "clock", <<>>, None)
\* jsdelivr-registry.ts 547-552, between calls, on the tiers of cacheGet
ClearJsdelivrPackageCache ==
    /\ callState = "idle" /\ ~cleared
    /\ memoryCache' = NoCache /\ cleared' = TRUE
    /\ UNCHANGED <<cfgVars, diskCache, diskIndex, argVars, localVars, logVars, previous,
                   storeVars, detectorVars, selectionVars, navVars>>

\* ------------------------------------------------- the package detector
\* semver.major of a string: the major number, or a TypeError (None) for a
\* string that is not a version.
semverMajor(v) == IF IsSome(semverValid(v)) THEN Some(v.core[1]) ELSE None

\* semver.coerce(x)?.version || x
coercedOrRaw(v) == IF IsSome(semverCoerce(v)) THEN Get(semverCoerce(v)) ELSE v

\* version.ts findClosestMinorVersion: the first version of allVersions with
\* the highest minor above the installed one in the same major, else the
\* first highest patch above the installed one in the same minor; entries
\* that are no versions are skipped.
findClosestMinorVersion(installedVersion, allVersions) ==
    LET coercedInstalled == semverCoerce(installedVersion)
    IN  IF ~IsSome(coercedInstalled) THEN None
        ELSE
        LET installed == Get(coercedInstalled).core
            Valid == {i \in 1..Len(allVersions) : IsSome(semverValid(allVersions[i]))}
            Minors == {i \in Valid : /\ allVersions[i].core[1] = installed[1]
                                     /\ allVersions[i].core[2] > installed[2]}
            BestMinors == {i \in Minors :
                             \A j \in Minors : allVersions[j].core[2] <= allVersions[i].core[2]}
            Patches == {i \in Valid : /\ allVersions[i].core[1] = installed[1]
                                      /\ allVersions[i].core[2] = installed[2]
                                      /\ allVersions[i].core[3] > installed[3]}
            BestPatches == {i \in Patches :
                              \A j \in Patches :
                                 semverCompare(allVersions[j], allVersions[i]) <= 0}
            First(S) == CHOOSE i \in S : \A j \in S : i <= j
        IN  IF Minors # {} THEN Some(allVersions[First(BestMinors)])
            ELSE IF Patches # {} THEN Some(allVersions[First(BestPatches)])
            ELSE None

Dep(name, version) == [name |-> name, version |-> version]
PackageInfo(dep, rangeVersion, latestVersion, isOutdated, hasRangeUpdate, hasMajorUpdate) ==
    [name |-> dep.name, currentVersion |-> dep.version, rangeVersion |-> rangeVersion,
     latestVersion |-> latestVersion, isOutdated |-> isOutdated,
     hasRangeUpdate |-> hasRangeUpdate, hasMajorUpdate |-> hasMajorUpdate]

\* package-detector.ts 105-138, the body of the inner try for a dependency
\* that has data: the record it pushes, or None when semver.major throws.
compareDependency(dep, data) ==
    LET closestMinorVersion == findClosestMinorVersion(dep.version, data.allVersions)
        installedClean == coercedOrRaw(dep.version)
        minorClean == IF IsSome(closestMinorVersion)
                      THEN Some(coercedOrRaw(Get(closestMinorVersion))) ELSE None
        latestClean == coercedOrRaw(data.latestVersion)
        hasRangeUpdate == IsSome(minorClean) /\ Get(minorClean) # installedClean
        latestMajor == semverMajor(latestClean)
        installedMajor == semverMajor(installedClean)
    IN  IF ~IsSome(latestMajor) \/ ~IsSome(installedMajor) THEN None
        ELSE LET hasMajorUpdate == Get(latestMajor) > Get(installedMajor)
             IN  Some(PackageInfo(dep,
                                  IF IsSome(closestMinorVersion) THEN Get(closestMinorVersion)
                                  ELSE dep.version,
                                  data.latestVersion,
                                  hasRangeUpdate \/ hasMajorUpdate, hasRangeUpdate,
                                  hasMajorUpdate))

\* The dependency without the inner catch: what was thrown leaves the loop.
checkDependencyUncaught(dep, data) == compareDependency(dep, data)

\* package-detector.ts 104-155, the inner try with its catch: a dependency
\* that cannot be compared is listed as not outdated.
checkDependency(dep, data) ==
    LET compared == compareDependency(dep, data)
    IN  IF IsSome(compared) THEN compared
        ELSE Some(PackageInfo(dep, UNKNOWN, UNKNOWN, FALSE, FALSE, FALSE))

\* package-detector.ts 102-163, the loop over deps[from..]: the list built
\* and whether an error left the loop.
RECURSIVE checkDependencies(_, _, _, _)
checkDependencies(deps, data, from, listed) ==
    IF from > Len(deps) THEN [packages |-> listed, threw |-> FALSE]
    ELSE IF ~IsSome(data[deps[from].name])
         THEN checkDependencies(deps, data, from + 1, listed)
    ELSE LET info == checkDependency(deps[from], Get(data[deps[from].name]))
         IN  IF ~IsSome(info) THEN [packages |-> listed, threw |-> TRUE]
             ELSE checkDependencies(deps, data, from + 1, Append(listed, Get(info)))

NoDetector ==
    /\ allDeps = <<>> /\ allPackageData = [n \in Names |-> None]
    /\ packages = <<>> /\ detectorState = "idle"

\* package-detector.ts 35-85: the dependencies are collected and the client
\* is called.
CollectDependencies(versions) ==
    /\ detectorState = "idle"
    /\ \E len \in 1..MaxDeps : \E deps \in [1..len -> [name : Names, version : versions]] :
          allDeps' = deps
    /\ detectorState' = "fetching"
    /\ UNCHANGED <<allPackageData, packages, callVars, storeVars, selectionVars, navVars>>

\* package-detector.ts 87-100: the client's map arrives, with or without an
\* entry for a name it was asked for, and none for another name.
PackageDataArrives(values) ==
    /\ detectorState = "fetching"
    /\ \E data \in [Names -> {None} \cup {Some(value) : value \in values}] :
          allPackageData' = [n \in Names |->
                               IF \E i \in 1..Len(allDeps) : allDeps[i].name = n
                               THEN data[n] ELSE None]
    /\ detectorState' = "fetched"
    /\ UNCHANGED <<allDeps, packages, callVars, storeVars, selectionVars, navVars>>

\* package-detector.ts 102-163, which runs without a pause
CheckDependencies ==
    /\ detectorState = "fetched"
    /\ LET done == checkDependencies(allDeps, allPackageData, 1, <<>>)
       IN  /\ packages' = done.packages
           /\ detectorState' = IF done.threw THEN "threw" ELSE "returned"
    /\ UNCHANGED <<allDeps, allPackageData, callVars, storeVars, selectionVars, navVars>>

\* ------------------------------------------------ the interactive selection
SelectionState(hasRangeUpdate, hasMajorUpdate, selectedOption) ==
    [hasRangeUpdate |-> hasRangeUpdate, hasMajorUpdate |-> hasMajorUpdate,
     selectedOption |-> selectedOption]

\* navigation-manager.ts 304-342: the option of one package after a press
\* that ignores what is available.
selectOptionUnchecked(currentState, direction) ==
    IF direction = "left"
    THEN (IF currentState.selectedOption = "latest" THEN "range"
          ELSE IF currentState.selectedOption = "range" THEN "none"
          ELSE "latest")
    ELSE (IF currentState.selectedOption = "none" THEN "range"
          ELSE IF currentState.selectedOption = "range" THEN "latest"
          ELSE "none")

\* navigation-manager.ts 304-342: the option of one package after a press
selectOption(currentState, direction) ==
    IF direction = "left"
    THEN (IF currentState.selectedOption = "latest"
          THEN (IF currentState.hasRangeUpdate THEN "range" ELSE "none")
          ELSE IF currentState.selectedOption = "range" THEN "none"
          ELSE IF currentState.hasMajorUpdate THEN "latest"
          ELSE IF currentState.hasRangeUpdate THEN "range"
          ELSE currentState.selectedOption)
    ELSE (IF currentState.selectedOption = "none"
          THEN (IF currentState.hasRangeUpdate THEN "range"
                ELSE IF currentState.hasMajorUpdate THEN "latest"
                ELSE currentState.selectedOption)
          ELSE IF currentState.selectedOption = "range"
          THEN (IF currentState.hasMajorUpdate THEN "latest" ELSE "none")
          ELSE "none")

\* navigation-manager.ts 298-343; row is the zero-based currentRow
updateSelection(list, row, direction) ==
    IF Len(list) = 0 \/ row >= Len(list) THEN list
    ELSE [list EXCEPT ![row + 1].selectedOption = selectOption(list[row + 1], direction)]

\* navigation-manager.ts 345-352
bulkSelectMinor(list) ==
    [i \in 1..Len(list) |->
        IF list[i].hasRangeUpdate THEN [list[i] EXCEPT !.selectedOption = "range"]
        ELSE list[i]]

\* navigation-manager.ts 354-363
bulkSelectLatest(list) ==
    [i \in 1..Len(list) |->
        IF list[i].hasMajorUpdate THEN [list[i] EXCEPT !.selectedOption = "latest"]
        ELSE IF list[i].hasRangeUpdate THEN [list[i] EXCEPT !.selectedOption = "range"]
        ELSE list[i]]

\* navigation-manager.ts 365-370
bulkUnselectAll(list) ==
    [i \in 1..Len(list) |-> [list[i] EXCEPT !.selectedOption = "none"]]

\* No selection is shown.
NoSelection == states = <<>> /\ currentRow = 0 /\ pressed = <<>>

\* A list of up to MaxRows packages with nothing selected, the cursor on the
\* first row (navigation-manager.ts 16-18, 228-231).
SelectionShown ==
    /\ \E len \in 0..MaxRows :
          states \in [1..len -> {SelectionState(r, m, "none") : r \in BOOLEAN, m \in BOOLEAN}]
    /\ currentRow = 0 /\ pressed = <<>>

LastTwo(s) == IF Len(s) > 2 THEN SubSeq(s, Len(s) - 1, Len(s)) ELSE s

\* Left or Right is pressed.
UpdateSelection ==
    /\ \E direction \in {"left", "right"} :
          /\ states' = updateSelection(states, currentRow, direction)
          /\ pressed' = IF currentRow < Len(states)
                        THEN LastTwo(Append(pressed,
                                 [direction |-> direction,
                                  found |-> states[currentRow + 1].selectedOption]))
                        ELSE pressed
    /\ UNCHANGED <<currentRow, callVars, storeVars, detectorVars, navVars>>

BulkSelectMinor ==
    /\ states' = bulkSelectMinor(states) /\ pressed' = <<>>
    /\ UNCHANGED <<currentRow, callVars, storeVars, detectorVars, navVars>>

BulkSelectLatest ==
    /\ states' = bulkSelectLatest(states) /\ pressed' = <<>>
    /\ UNCHANGED <<currentRow, callVars, storeVars, detectorVars, navVars>>

BulkUnselectAll ==
    /\ states' = bulkUnselectAll(states) /\ pressed' = <<>>
    /\ UNCHANGED <<currentRow, callVars, storeVars, detectorVars, navVars>>

\* navigation-manager.ts 38-41: the cursor moves to another row of the list
SetCurrentRow ==
    /\ \E row \in 0..(Len(states) - 1) : row # currentRow /\ currentRow' = row
    /\ pressed' = <<>>
    /\ UNCHANGED <<states, callVars, storeVars, detectorVars, navVars>>

\* ------------------------------------------------ the list on screen
\* RenderableItem: a section header, a spacer between sections, or the row of
\* the package with index originalIndex.
Header == [type |-> "header", originalIndex |-> -1]
Spacer == [type |-> "spacer", originalIndex |-> -1]
Package(originalIndex) == [type |-> "package", originalIndex |-> originalIndex]

\* this.renderableItems[i]?.type for a zero-based i, inside the list or not
ItemType(items, i) == IF i + 1 \in 1..Len(items) THEN items[i + 1].type ELSE "undefined"

\* navigation-manager.ts 61-75; the index is zero-based
packageIndexToVisualIndex(items, packageIndex) ==
    IF Len(items) = 0 THEN packageIndex
    ELSE LET found == {i \in 1..Len(items) : /\ items[i].type = "package"
                                             /\ items[i].originalIndex = packageIndex}
         IN  IF found = {} THEN 0
             ELSE (CHOOSE i \in found : \A j \in found : i <= j) - 1

\* navigation-manager.ts 78-118
findNextPackageIndex(items, currentPackageIndex, direction, totalPackages) ==
    IF Len(items) = 0
    THEN IF direction = "up"
         THEN (IF currentPackageIndex <= 0 THEN totalPackages - 1
               ELSE currentPackageIndex - 1)
         ELSE (IF currentPackageIndex >= totalPackages - 1 THEN 0
               ELSE currentPackageIndex + 1)
    ELSE LET packageItems == SelectSeq(items, LAMBDA item : item.type = "package")
             at == {k \in 1..Len(packageItems) :
                       packageItems[k].originalIndex = currentPackageIndex}
         IN  IF Len(packageItems) = 0 THEN currentPackageIndex
             ELSE IF at = {} THEN packageItems[1].originalIndex
             ELSE LET currentPos == (CHOOSE k \in at : \A j \in at : k <= j) - 1
                      newPos == IF direction = "up"
                                THEN (IF currentPos <= 0 THEN Len(packageItems) - 1
                                      ELSE currentPos - 1)
                                ELSE (IF currentPos >= Len(packageItems) - 1 THEN 0
                                      ELSE currentPos + 1)
                  IN  packageItems[newPos + 1].originalIndex

\* navigation-manager.ts 134-175: the scrollOffset that ensureVisible leaves
ensureVisible(items, maxVisible, offset, packageIndex, totalPackages) ==
    LET visualIndex == packageIndexToVisualIndex(items, packageIndex)
        totalVisualItems == IF Len(items) # 0 THEN Len(items) ELSE totalPackages
        targetVisualIndex ==
            IF visualIndex > 0 /\ ItemType(items, visualIndex - 1) = "header"
            THEN visualIndex - 1
            ELSE IF /\ visualIndex > 1
                    /\ ItemType(items, visualIndex - 1) = "spacer"
                    /\ ItemType(items, visualIndex - 2) = "header"
            THEN Max(0, visualIndex - 2)
            ELSE visualIndex
        scrolled == IF targetVisualIndex < offset THEN targetVisualIndex
                    ELSE IF visualIndex >= offset + maxVisible THEN offset + 1
                    ELSE offset
        maxScroll == Max(0, totalVisualItems - maxVisible)
        clamped == Max(0, Min(scrolled, maxScroll))
    IN  IF visualIndex = totalVisualItems - 1 /\ visualIndex >= clamped + maxVisible
        THEN maxScroll
        ELSE clamped

\* No list is on screen: navigation-manager.ts 16-24 with its defaults.
NoNavigation ==
    /\ scrollOffset = 0 /\ renderableItems = <<>>
    /\ maxVisibleItems = 19 /\ totalItems = 0

\* The items of a grouped list whose sections hold sizes[k] packages each: a
\* header on top of every section and a spacer above every header but the
\* first (navigation-manager.ts 139-152, package-list.ts 314-333).
RECURSIVE GroupedItems(_, _, _)
GroupedItems(sizes, k, first) ==
    IF k > Len(sizes) THEN <<>>
    ELSE (IF k > 1 THEN <<Spacer>> ELSE <<>>)
         \o <<Header>>
         \o [i \in 1..sizes[k] |-> Package(first + i - 1)]
         \o GroupedItems(sizes, k + 1, first + sizes[k])
RECURSIVE SumOf(_)
SumOf(sizes) == IF sizes = <<>> THEN 0 ELSE Head(sizes) + SumOf(Tail(sizes))
SectionSizes ==
    {sizes \in UNION {[1..k -> 1..MaxNavPackages] : k \in 1..3} :
        SumOf(sizes) <= MaxNavPackages}
\* navigation-manager.ts 232-233: the rows that fit a terminal of that height
headerLines == 5
VisibleItemsOf(terminalHeight) == Max(5, terminalHeight - headerLines - 2)
TerminalHeights == {12, 13}

\* A list comes on screen, flat or grouped, with the cursor on its first
\* package and the window at the top.
ListShown ==
    /\ scrollOffset = 0
    /\ maxVisibleItems \in {VisibleItemsOf(h) : h \in TerminalHeights}
    /\ \/ renderableItems = <<>> /\ totalItems \in 0..MaxNavPackages
       \/ \E sizes \in SectionSizes :
             /\ renderableItems = GroupedItems(sizes, 1, 0)
             /\ totalItems = SumOf(sizes)

\* navigation-manager.ts 120-125 (by way of 285-287)
NavigateUp ==
    /\ totalItems # 0
    /\ currentRow' = findNextPackageIndex(renderableItems, currentRow, "up", totalItems)
    /\ scrollOffset' = ensureVisible(renderableItems, maxVisibleItems, scrollOffset,
                                     currentRow', totalItems)
    /\ UNCHANGED <<renderableItems, maxVisibleItems, totalItems, states, pressed,
                   callVars, storeVars, detectorVars>>

\* navigation-manager.ts 127-132 (by way of 289-291)
NavigateDown ==
    /\ totalItems # 0
    /\ currentRow' = findNextPackageIndex(renderableItems, currentRow, "down", totalItems)
    /\ scrollOffset' = ensureVisible(renderableItems, maxVisibleItems, scrollOffset,
                                     currentRow', totalItems)
    /\ UNCHANGED <<renderableItems, maxVisibleItems, totalItems, states, pressed,
                   callVars, storeVars, detectorVars>>

\* navigation-manager.ts 460-464 with 177-179: StateManager.resetForResize
\* passes the number of renderable items, or maxVisibleItems when there is none.
ResetForResize ==
    /\ scrollOffset' = ensureVisible(renderableItems, maxVisibleItems, scrollOffset,
                                     currentRow,
                                     IF Len(renderableItems) # 0 THEN Len(renderableItems)
                                     ELSE maxVisibleItems)
    /\ UNCHANGED <<currentRow, renderableItems, maxVisibleItems, totalItems, states,
                   pressed, callVars, storeVars, detectorVars>>

\* --- Spec: batches of up to MaxPackages names over two packages, a success
\* and a retryable failure as answers.  Every list of up to three names is
\* explored; a longer one has the occurrences of each package next to each
\* other.  The retry loop runs with the test configuration for lists of at
\* most two names and with a single attempt for the longer ones; current
\* versions are passed when the cache starts empty.  The cache starts empty,
\* with data of an earlier run in it, or with an index file that has no
\* `entries` object.
IsGrouped(l) ==
    \A i, j, k \in 1..Len(l) : (i < j /\ j < k /\ l[i] = l[k]) => l[j] = l[i]
NameLists ==
    {l \in UNION {[1..k -> Names] : k \in 0..MaxPackages} : Len(l) <= 3 \/ IsGrouped(l)}
BatchLists == IF Len(RETRY_TIMEOUTS) > 1 THEN {l \in NameLists : Len(l) <= 2} ELSE NameLists
BatchVersionMaps ==
    IF memoryCache = NoCache /\ diskCache = NoCache /\ diskIndex = "valid"
    THEN {NoVersions, [NoVersions EXCEPT !["a"] = Some(v100)]}
    ELSE {NoVersions}
BatchCdnAnswers(stage) ==
    {Answer("timeout", vEmpty, 0, None),
     Answer("ok", IF stage = "latest" THEN v231 ELSE v190, 200, None)}
RegistryLists == {l \in NameLists : Len(l) <= MaxRegistryPackages}
BatchRegistryAnswers ==
    {[ok |-> TRUE, keys |-> <<v100, v231>>, fault |-> ""],
     [ok |-> FALSE, keys |-> <<>>, fault |-> "networkError"]}

Init == InitWith({<<20>>, TestTimeouts}, {TestDelays}, CacheSeeds) /\ NoStore /\ NoDetector /\ NoSelection /\ NoNavigation
CallJsdelivr == CallJsdelivrWith(BatchLists, BatchVersionMaps)
CallNpm == CallNpmWith(RegistryLists)
CdnResponse == CdnResponseWith([tag \in Tags |-> BatchCdnAnswers(tag)])
FallbackResponse == FallbackResponseWith(BatchRegistryAnswers)
RegistryResponse == RegistryResponseWith(BatchRegistryAnswers)

Next ==
    \/ CallJsdelivr
    \/ CallNpm
    \/ CdnResponse
    \/ SleepElapsed
    \/ FallbackResponse
    \/ RegistryResponse
    \/ BatchTimerFires

Spec == Init /\ [][Next]_vars

\* --- SpecFair: calls of the CDN client with up to two names over two
\* packages, where every request that is out is answered (by a response, an
\* error or the abort of its attempt's timer: jsdelivr-registry.ts 270-281,
\* npm-registry.ts 21-24) and every sleep before a retry ends (310-313).
FairLists == {l \in NameLists : Len(l) <= 2}
InitFair == InitWith({TestTimeouts}, {TestDelays}, CacheSeeds) /\ NoStore /\ NoDetector /\ NoSelection /\ NoNavigation
FairCallJsdelivr == CallJsdelivrWith(FairLists, BatchVersionMaps)
NextFair ==
    \/ FairCallJsdelivr
    \/ CdnResponse
    \/ SleepElapsed
    \/ FallbackResponse
    \/ BatchTimerFires
\* The request of a tag of package n is out; the fallback's request is out.
CdnPending(n) ==
    /\ entry = "jsdelivr" /\ callState = "running"
    /\ lookup[n].stage \in Tags /\ lookup[n].phase = "request"
FallbackPending(n) ==
    entry = "jsdelivr" /\ callState = "running" /\ lookup[n].stage = "registry"
\* A step of the lookup of package n: while a request of n is out, its answer
\* is the one step that changes lookup[n].
Moves(n) == lookup'[n] # lookup[n]
\* Weak fairness of the answer to each package's request, WF_vars(A) written
\* as []<>~ENABLED <<A>>_vars \/ []<><<A>>_vars with the enabling condition of
\* the answer (its request is out) in place of ENABLED.
RequestsSettle ==
    \A n \in Names :
        /\ []<>~CdnPending(n) \/ []<><<CdnPending(n) /\ Moves(n)>>_vars
        /\ []<>~FallbackPending(n) \/ []<><<FallbackPending(n) /\ Moves(n)>>_vars
SpecFair ==
    /\ InitFair /\ [][NextFair]_vars
    /\ WF_vars(SleepElapsed)
    /\ RequestsSettle

\* --- SpecLookup: one package, asked for once or twice, with every answer.
LookupLists == {<<"a">>, <<"a", "a">>}
LookupVersionMaps ==
    {NoVersions, [NoVersions EXCEPT !["a"] = Some(v100)],
     [NoVersions EXCEPT !["a"] = Some(v231)],
     [NoVersions EXCEPT !["a"] = Some(vStable)], [NoVersions EXCEPT !["a"] = Some(vEmpty)]}
\* What the CDN client has cached for a package whose latest version is a
\* pre-release: jsdelivr-registry.ts 465-481.
dCdnPrerelease == ComposeCdnData(v300rc, None)
LookupSeeds ==
    {seed \in CacheSeeds : ~IsSome(seed.disk["b"])}
        \cup {[memory |-> NoCache, disk |-> [NoCache EXCEPT !["a"] = Some(dCdnPrerelease)],
               index |-> "valid"]}

InitLookup == InitWith({TestTimeouts}, {TestDelays}, LookupSeeds) /\ NoStore /\ NoDetector /\ NoSelection /\ NoNavigation
LookupCallJsdelivr == CallJsdelivrWith(LookupLists, LookupVersionMaps)
LookupCallNpm == CallNpmWith(LookupLists)
LookupCdnResponse == CdnResponseWith([tag \in Tags |-> CdnAnswers(tag)])
LookupFallbackResponse == FallbackResponseWith(RegistryAnswers)
LookupRegistryResponse == RegistryResponseWith(RegistryAnswers)

NextLookup ==
    \/ ClearJsdelivrPackageCache
    \/ CallJsdelivrAgain
    \/ LookupCallJsdelivr
    \/ LookupCallNpm
    \/ LookupCdnResponse
    \/ SleepElapsed
    \/ LookupFallbackResponse
    \/ LookupRegistryResponse

SpecLookup == InitLookup /\ [][NextLookup]_vars

\* --- SpecConfig: one package under every retry configuration of up to
\* MaxConfigLen entries (in half milliseconds: 0 and 1 are no positive integer
\* of milliseconds, 20 and 21 are both 10 ms).
ConfigValues == {0, 1, 20, 21, 40}
ConfigSequences == UNION {[1..k -> ConfigValues] : k \in 0..MaxConfigLen}
ConfigDelays == {<<>>, TestDelays}
ConfigCdnAnswers(stage) ==
    {a \in CdnAnswers(stage) : a.kind # "ok" \/ a.version = v231}

InitConfig ==
    /\ NoDetector /\ NoSelection /\ NoNavigation
    /\ InitWith(ConfigSequences, ConfigDelays,
                {[memory |-> NoCache, disk |-> NoCache, index |-> "valid"]})
    /\ NoStore
ConfigCallJsdelivr ==
    /\ callState = "idle"
    /\ Becomes(getAllPackageDataFromJsdelivr(Cur, <<"a">>, NoVersions, FALSE, FALSE, 0, 0))
ConfigCdnResponse == CdnResponseWith([tag \in Tags |-> ConfigCdnAnswers(tag)])
ConfigFallbackResponse == FallbackResponseWith(BatchRegistryAnswers)

NextConfig ==
    \/ ConfigCallJsdelivr
    \/ ConfigCdnResponse
    \/ SleepElapsed
    \/ ConfigFallbackResponse

SpecConfig == InitConfig /\ [][NextConfig]_vars

\* --- SpecDelays: one package under three or two retry timeouts (10, 20 and
\* 30 ms) and every delay table of up to MaxDelayLen entries of 1, 3 and 50 ms
\* (in half milliseconds).
DelayValues == {2, 6, 100}
DelayTables == UNION {[1..k -> DelayValues] : k \in 0..MaxDelayLen}
DelayTimeouts == {<<20, 40, 60>>, <<20, 40>>}
InitDelays ==
    /\ NoDetector /\ NoSelection /\ NoNavigation
    /\ InitWith(DelayTimeouts, DelayTables,
                {[memory |-> NoCache, disk |-> NoCache, index |-> "valid"]})
    /\ NoStore
NextDelays ==
    \/ ConfigCallJsdelivr
    \/ ConfigCdnResponse
    \/ SleepElapsed
    \/ ConfigFallbackResponse
SpecDelays == InitDelays /\ [][NextDelays]_vars

\* --- SpecCache: up to MaxCacheOps operations of one or more processes on the
\* persistent cache, over a directory that is empty, in order, of another
\* format version, or damaged.
pkg == <<"pkg">>
CacheKeys == {pkg, <<"@", "s", "/", "n">>, <<"index">>}
StoredIndex(version, entries) ==
    IndexFile([version |-> version, entries |-> entries])
CacheDirs ==
    LET data == getFilename(pkg) :> EntryFile(Sentinel)
        indexed == Some(<<IndexEntry(pkg, 0)>>)
    IN  {NoFiles,
         (INDEX_FILE :> StoredIndex(CACHE_VERSION, indexed)) @@ data,
         (INDEX_FILE :> StoredIndex(CACHE_VERSION - 1, indexed)) @@ data,
         (INDEX_FILE :> StoredIndex(CACHE_VERSION, None)) @@ data,
         (INDEX_FILE :> CorruptFile) @@ data}
ClockJumps == {DISK_CACHE_TTL, DISK_CACHE_TTL + 1}

InitCache ==
    /\ NoDetector /\ NoSelection /\ NoNavigation
    /\ NoCall
    /\ StoreInit(CacheDirs, 0)
CacheGet == PersistentGetOf(CacheKeys)
CacheSet == PersistentSetOf(CacheKeys, {dCdn})
CacheClock == ClockAdvancesBy(ClockJumps)
NextCache ==
    \/ CacheGet
    \/ CacheSet
    \/ Flush
    \/ GetStats
    \/ ClearCache
    \/ NewInstance
    \/ CacheClock
SpecCache == InitCache /\ [][NextCache]_vars

\* --- SpecDamage: the persistent cache over a directory whose index lists two
\* keys while the data file of either may be missing or unparsable.
DamageKeys == {pkg, <<"@", "s", "/", "n">>, <<"s", "__", "n">>}
DamageDirs ==
    LET other == <<"@", "s", "/", "n">>
        listed == INDEX_FILE :> StoredIndex(CACHE_VERSION,
                                    Some(<<IndexEntry(pkg, 0), IndexEntry(other, 0)>>))
        FileStates(name, data) ==
            {NoFiles, getFilename(name) :> EntryFile(data), getFilename(name) :> CorruptFile}
    IN  {listed @@ f @@ g : f \in FileStates(pkg, Sentinel), g \in FileStates(other, dCdn)}
InitDamage ==
    /\ NoDetector /\ NoSelection /\ NoNavigation
    /\ NoCall
    /\ StoreInit(DamageDirs, 0)
DamageGet == PersistentGetOf(DamageKeys)
DamageSet == PersistentSetOf(DamageKeys, {dCdn})
NextDamage ==
    \/ DamageGet
    \/ DamageSet
    \/ Flush
    \/ NewInstance
SpecDamage == InitDamage /\ [][NextDamage]_vars

\* --- SpecCapacity: the persistent cache over an index that is full or one
\* short of full, with keys beyond the capacity.
CapacityKey(i) == <<"p", ToString(i)>>
FullIndex(count) ==
    [i \in 1..count |-> IndexEntry(CapacityKey(i), (MaxCacheEntries - i) \div 2)]
CapacityDirs ==
    {(INDEX_FILE :> StoredIndex(CACHE_VERSION, Some(FullIndex(count))))
        @@ [f \in {getFilename(CapacityKey(i)) : i \in 1..count} |-> EntryFile(Sentinel)]
     : count \in {MaxCacheEntries - 1, MaxCacheEntries}}
InitCapacity ==
    /\ NoDetector /\ NoSelection /\ NoNavigation
    /\ NoCall
    /\ StoreInit(CapacityDirs, MaxCacheEntries)
CapacityGet == PersistentGetOf({CapacityKey(1), CapacityKey(MaxCacheEntries + 1)})
CapacitySet ==
    PersistentSetOf({CapacityKey(i) : i \in {1, MaxCacheEntries, MaxCacheEntries + 1,
                                               MaxCacheEntries + 2}}, {dCdn})
CapacityClock == ClockAdvancesBy({1})
NextCapacity ==
    \/ CapacityGet
    \/ CapacitySet
    \/ Flush
    \/ ClearCache
    \/ NewInstance
    \/ CapacityClock
SpecCapacity == InitCapacity /\ [][NextCapacity]_vars

\* --- SpecTiers: CacheManager over the persistent cache.
TierKeys == {pkg, <<"index">>}
TierDirs ==
    {dir \in CacheDirs :
        INDEX_FILE \in DOMAIN dir =>
            dir[INDEX_FILE].kind = "index" /\ dir[INDEX_FILE].version = CACHE_VERSION}
InitTiers ==
    /\ NoDetector /\ NoSelection /\ NoNavigation
    /\ NoCall
    /\ StoreInit(TierDirs, 0)
TierGet == ManagerGetOf(TierKeys)
TierSet == ManagerSetOf(TierKeys, {dCdn})
TierClock == ClockAdvancesBy({CACHE_TTL, DISK_CACHE_TTL + 1})
NextTiers ==
    \/ TierGet
    \/ TierSet
    \/ ManagerClear
    \/ Flush
    \/ NewInstance
    \/ TierClock
SpecTiers == InitTiers /\ [][NextTiers]_vars

\* --- SpecDetector: one run of getOutdatedPackages over up to MaxDeps
\* dependency entries of two packages, with every installed version and
\* every resolved value of the sets below.
InstalledVersions == {v100, v190, v10, vStable}
ResolvedValues ==
    {Sentinel, Data(v231, <<v231, v190, v100>>), Data(v190, <<v190, v100>>),
     Data(v10, <<v10>>)}
InitDetector == NoCall /\ NoStore /\ NoDetector /\ NoSelection /\ NoNavigation
DetectorCollect == CollectDependencies(InstalledVersions)
DetectorData == PackageDataArrives(ResolvedValues)
NextDetector == DetectorCollect \/ DetectorData \/ CheckDependencies
SpecDetector == InitDetector /\ [][NextDetector]_vars

\* --- SpecSelection: every list of up to MaxRows packages, every key.
InitSelection == NoCall /\ NoStore /\ NoDetector /\ SelectionShown /\ NoNavigation
NextSelection ==
    \/ UpdateSelection \/ BulkSelectMinor \/ BulkSelectLatest \/ BulkUnselectAll
    \/ SetCurrentRow
SpecSelection == InitSelection /\ [][NextSelection]_vars

\* --- SpecLifetime: CacheManager over a directory that is empty or holds what
\* an earlier process stored at time 0, while the clock moves by one TTL of
\* the memory tier or of the disk tier at a time.
LifetimeKeys == {pkg, <<"index">>}
LifetimeDirs ==
    {NoFiles,
     (INDEX_FILE :> StoredIndex(CACHE_VERSION, Some(<<IndexEntry(pkg, 0)>>)))
         @@ (getFilename(pkg) :> EntryFile(Sentinel))}
InitLifetime ==
    /\ NoDetector /\ NoSelection /\ NoNavigation
    /\ NoCall
    /\ StoreInit(LifetimeDirs, 0)
LifetimeGet == ManagerGetOf(LifetimeKeys)
LifetimeSet == ManagerSetOf(LifetimeKeys, {dCdn})
LifetimeClock == ClockAdvancesBy({CACHE_TTL, DISK_CACHE_TTL})
NextLifetime ==
    \/ LifetimeGet
    \/ LifetimeSet
    \/ Flush
    \/ NewInstance
    \/ LifetimeClock
SpecLifetime == InitLifetime /\ [][NextLifetime]_vars

\* --- SpecNavigation: the cursor moves up and down a list of up to
\* MaxNavPackages packages, flat or in up to three sections, and the terminal
\* is resized to its own size.
InitNavigation ==
    /\ NoCall /\ NoStore /\ NoDetector
    /\ states = <<>> /\ currentRow = 0 /\ pressed = <<>>
    /\ ListShown
NextNavigation ==
    \/ NavigateUp
    \/ NavigateDown
    \/ ResetForResize
SpecNavigation == InitNavigation /\ [][NextNavigation]_vars

\* --- SpecKeys: sets and gets of one process on an empty directory, over a
\* scoped name, the unscoped name that getFilename gives the same file, and
\* a third name.
scoped == <<"@", "s", "/", "n">>
flattened == <<"s", "__", "n">>
KeyNames == {scoped, flattened, pkg}
KeyValues == {dCdn, Sentinel}
InitKeys == NoCall /\ NoDetector /\ NoSelection /\ NoNavigation /\ StoreInit({NoFiles}, 0)
KeysGet == PersistentGetOf(KeyNames)
KeysSet == PersistentSetOf(KeyNames, KeyValues)
NextKeys == KeysGet \/ KeysSet
SpecKeys == InitKeys /\ [][NextKeys]_vars

\* --------------------------------------------------------- properties
InputNames == Range(packageNames)
Returned == callState = "returned"
Jsdelivr == entry = "jsdelivr"
Registry == entry = "npm"
PositionsOf(n) == {i \in 1..Len(packageNames) : packageNames[i] = n}
FallbacksFor(n) == {k \in 1..Len(fallbackLog) : fallbackLog[k].args = <<n>>}
RetryableClasses == {"timeout", "transient", "retryableStatus"}

\* C1: every PackageVersionData in the result map of either entry point, or
\* handed to a callback on the way, that has a non-empty allVersions has
\* latestVersion as its first element, as the same string.
LatestFirst(data) ==
    Len(data.allVersions) > 0 => data.allVersions[1] = data.latestVersion
C1_LatestIsFirst ==
    /\ \A n \in Names : IsSome(packageData[n]) => LatestFirst(Get(packageData[n]))
    /\ \A i \in 1..Len(task) : IsSome(task[i].value) => LatestFirst(Get(task[i].value))
\* The CDN gave a latest version that is no semver and a major-tag version
\* that is one; the call has returned both, the latest first.
C1_Witness ==
    /\ Jsdelivr /\ Returned
    /\ IsSome(packageData["a"])
    /\ Get(packageData["a"]).latestVersion = vStable
    /\ Len(Get(packageData["a"]).allVersions) = 2

\* C2: in one getAllPackageDataFromJsdelivr call every package has at most one
\* lookup: its requests for a tag are the attempts of one retry loop, the
\* fallback is invoked for it at most once, and all input positions of the
\* package get the same result.
C2_OneLookupPerName ==
    Jsdelivr =>
        \A n \in Names :
            /\ lookup[n].stage = "latest" => requests[n].latest = lookup[n].attempt + 1
            /\ lookup[n].stage = "major" => requests[n].major = lookup[n].attempt + 1
            /\ requests[n].latest <= Len(RETRY_TIMEOUTS)
            /\ requests[n].major <= Len(RETRY_TIMEOUTS)
            /\ Cardinality(FallbacksFor(n)) <= 1
            /\ requests[n].registry <= 1
            /\ \A i, j \in PositionsOf(n) :
                  (task[i].pc = "done" /\ task[j].pc = "done") => task[i].value = task[j].value
\* A package asked for twice was retried on the CDN, fell back to the registry
\* and both positions have their result.
C2_Witness ==
    /\ Jsdelivr /\ Returned
    /\ \E n \in Names :
          /\ Cardinality(PositionsOf(n)) >= 2
          /\ requests[n].latest = 2
          /\ Cardinality(FallbacksFor(n)) = 1
          /\ \A i \in PositionsOf(n) : IsSome(task[i].value)

\* C3: in both entry points, while the progress callback has not thrown, it
\* has been invoked once for every completed input position and for no other,
\* after the position's value was available, with total = N and with
\* completed = 1, 2, ... in invocation order; when the call is over it has
\* been invoked N times.
ProgressHasThrown == thrown.progress > 0
BatchHasThrown == thrown.batch > 0
CallIsOver == callState \in {"returned", "rejected"}
C3_ProgressOncePerOccurrence ==
    (onProgress /\ ~ProgressHasThrown) =>
        /\ Len(progressLog) = completedCount
        /\ \A k \in 1..Len(progressLog) :
              /\ progressLog[k].completed = k
              /\ progressLog[k].total = Len(packageNames)
              /\ progressLog[k].name = packageNames[progressLog[k].occ]
              /\ IsSome(progressLog[k].value)
              /\ task[progressLog[k].occ].pc = "done"
        /\ \A k, m \in 1..Len(progressLog) :
              progressLog[k].occ = progressLog[m].occ => k = m
        /\ CallIsOver => Len(progressLog) = Len(packageNames)

\* C4: in a getAllPackageDataFromJsdelivr call whose batch-ready callback has
\* not thrown, every completed input position is in the buffer or in exactly
\* one delivered batch, never in both and never twice; at the return all of
\* them have been delivered.
Delivered == {<<k, m>> \in (1..Len(batchLog)) \X (1..BATCH_SIZE) : m <= Len(batchLog[k])}
DeliveriesOf(i) == {d \in Delivered : batchLog[d[1]][d[2]].occ = i}
BufferedAt(i) == {m \in 1..Len(batchBuffer) : batchBuffer[m].occ = i}
C4_EachCompletionInOneBatch ==
    (Jsdelivr /\ onBatchReady /\ ~BatchHasThrown) =>
        /\ \A i \in 1..Len(packageNames) :
              /\ Cardinality(DeliveriesOf(i)) + Cardinality(BufferedAt(i))
                    = IF task[i].pc = "done" /\ IsSome(task[i].value) THEN 1 ELSE 0
              /\ \A d \in DeliveriesOf(i) :
                    /\ batchLog[d[1]][d[2]].name = packageNames[i]
                    /\ Some(batchLog[d[1]][d[2]].data) = task[i].value
        /\ \A k \in 1..Len(batchLog) : Len(batchLog[k]) <= BATCH_SIZE
        /\ Returned => batchBuffer = <<>>
\* Six completions were delivered in a full batch of BATCH_SIZE and a later
\* batch with the rest.
C4_Witness ==
    /\ Jsdelivr /\ Returned /\ onBatchReady /\ batchReadyCallback
    /\ Len(packageNames) = BATCH_SIZE + 1
    /\ \E k \in 1..Len(batchLog) : Len(batchLog[k]) = BATCH_SIZE
    /\ Len(batchLog) = 2

\* C5: when getAllPackageDataFromJsdelivr has returned, the result map has an
\* entry for every input package; a package for which the CDN gave no latest
\* version and the registry request failed has the unknown sentinel.
RegistryFailedFor(n) == lookup[n].registry = Some(Sentinel)
C5_ResultMapComplete ==
    (Jsdelivr /\ Returned) =>
        \A n \in InputNames :
            /\ IsSome(packageData[n])
            /\ RegistryFailedFor(n) => packageData[n] = Some(Sentinel)

\* C6: getAllPackageData never rejects, whatever the registry answers and
\* whatever its onProgress callback does, and its result map has an entry for
\* every input name.  Stated for a cache index of the shape the program
\* writes, where no cache lookup throws.
C6_RegistryCallNeverRejects ==
    (Registry /\ diskIndex = "valid") =>
        /\ callState # "rejected"
        /\ Returned => \A n \in InputNames : IsSome(packageData[n])

\* C7: in a getAllPackageDataFromJsdelivr call, once a callback has thrown it
\* is not invoked again; the call never rejects and returns when every input
\* position is done; the other callback goes on being invoked, once for every
\* completion; and the result map is what the positions' results make it,
\* as without the throw.
DonePositions == {i \in 1..Len(packageNames) : task[i].pc = "done"}
ResultMapFromValues ==
    \A n \in Names :
        LET results == {task[i].value : i \in {j \in DonePositions \cap PositionsOf(n) :
                                                  IsSome(task[j].value)}}
        IN  IF results = {} THEN packageData[n] = None ELSE packageData[n] \in results
C7_ThrowIsContained ==
    Jsdelivr =>
        /\ callState # "rejected"
        /\ ProgressHasThrown => Len(progressLog) = thrown.progress
        /\ BatchHasThrown => Len(batchLog) = thrown.batch
        /\ (ProgressHasThrown \/ BatchHasThrown) =>
              /\ ResultMapFromValues
              /\ completedCount = Cardinality(DonePositions)
              /\ DonePositions = 1..Len(packageNames) => Returned
              /\ (onProgress /\ ~ProgressHasThrown) =>
                    /\ Len(progressLog) = completedCount
                    /\ \A k \in 1..Len(progressLog) : progressLog[k].completed = k
              /\ C4_EachCompletionInOneBatch
\* The progress callback threw at its first invocation of a three-position
\* call; the call returned all results and delivered them in batches.
C7_Witness ==
    /\ Jsdelivr /\ Returned
    /\ thrown.progress = 1 /\ Len(packageNames) = 3
    /\ onBatchReady /\ ~BatchHasThrown
    /\ \A i \in 1..3 : Cardinality(DeliveriesOf(i)) = 1
    /\ \A n \in InputNames : IsSome(packageData[n])

\* C8: a package whose CDN fetch of tag 'latest' has returned a version, at
\* the first attempt or after retries, never has the registry fallback invoked
\* in that call, whatever the major-tag fetch gives.
C8_NoFallbackAfterLatest ==
    Jsdelivr =>
        \A n \in Names :
            IsSome(lookup[n].latest) =>
                /\ FallbacksFor(n) = {}
                /\ requests[n].registry = 0
                /\ lookup[n].registry = None
\* The latest version came at the second attempt, the major-tag fetch used up
\* its attempts without a version, and the call has returned.
C8_Witness ==
    /\ Jsdelivr /\ Returned
    /\ IsSome(lookup["a"].latest)
    /\ requests["a"].latest = 2
    /\ requests["a"].major = Len(RETRY_TIMEOUTS)
    /\ "ok" \notin seen["a"].major
    /\ Len(Get(packageData["a"]).allVersions) = 1

\* C9: when every attempt for tag 'latest' of an uncached package has timed
\* out, getAllPackageData has been invoked exactly once in the call, with the
\* list of that one name, after the last CDN attempt and not before, and what
\* it gave for the package is the package's value in the result map.
LatestAttemptsFailedWith(n, classes) ==
    /\ lookup[n].stage \in {"registry", "settled"}
    /\ seen[n].latest # {} /\ seen[n].latest \subseteq classes
C9_FallbackOnceAfterTimeouts ==
    Jsdelivr =>
        \A n \in Names :
            /\ lookup[n].stage = "latest" => FallbacksFor(n) = {}
            /\ LatestAttemptsFailedWith(n, {"timeout"}) =>
                  /\ Cardinality(FallbacksFor(n)) = 1
                  /\ \A k \in FallbacksFor(n) :
                        /\ fallbackLog[k].cdnRequests = Len(RETRY_TIMEOUTS)
                        /\ fallbackLog[k].cdnAttempt = Len(RETRY_TIMEOUTS) - 1
                  /\ requests[n].latest = Len(RETRY_TIMEOUTS)
                  /\ requests[n].major = 0
                  /\ lookup[n].stage = "settled" => IsSome(lookup[n].registry)
                  /\ Returned => packageData[n] = lookup[n].registry
\* Both attempts timed out, the registry answered with versions, and the call
\* has returned them.
C9_Witness ==
    /\ Jsdelivr /\ Returned
    /\ LatestAttemptsFailedWith("a", {"timeout"})
    /\ requests["a"].registry = 1
    /\ IsSome(packageData["a"])
    /\ Get(packageData["a"]).latestVersion # UNKNOWN

\* C10 as stated: a tag fetch whose every attempt failed with a retryable
\* fault has issued as many requests as the configured retry-timeout sequence
\* has entries.
C10_RequestsEqualConfiguredEntries ==
    \A n \in Names :
        LatestAttemptsFailedWith(n, RetryableClasses) =>
            requests[n].latest = Len(cfgTimeouts)

\* C10, amended: a tag fetch never issues more requests than there are
\* distinct positive whole-millisecond values among the configured retry
\* timeouts (one, if there is none), and issues exactly that many when every
\* attempt failed with a retryable fault.
WholeMilliseconds == {v \div 2 : v \in {w \in Range(cfgTimeouts) : w > 0}} \ {0}
EffectiveEntries ==
    IF WholeMilliseconds = {} THEN 1 ELSE Cardinality(WholeMilliseconds)
C10_RequestsEqualEffectiveEntries ==
    \A n \in Names :
        /\ requests[n].latest <= EffectiveEntries
        /\ requests[n].major <= EffectiveEntries
        /\ LatestAttemptsFailedWith(n, RetryableClasses) =>
              requests[n].latest = EffectiveEntries
\* Two configured timeouts of the same number of milliseconds: one request,
\* failed with a retryable status, then the fallback.
C10_Witness ==
    /\ Len(cfgTimeouts) = 2 /\ EffectiveEntries = 1
    /\ LatestAttemptsFailedWith("a", {"retryableStatus"})
    /\ requests["a"].latest = 1
    /\ Cardinality(FallbacksFor("a")) = 1

\* C11: in a getAllPackageDataFromJsdelivr call a position completes (its
\* progress report is made and its data enters a batch) in the step in which
\* its own lookup settles, whatever the other packages are doing: between
\* steps every position is either done or waiting on a lookup of its own
\* package that has not settled, and every done position has been reported
\* and batched while the callbacks are in use.
Unsettled == {"latest", "major", "registry"}
C11_CompletionNeverWaits ==
    (Jsdelivr /\ callState \notin {"idle", "rejected"}) =>
        \A i \in 1..Len(packageNames) :
            /\ task[i].pc \in {"waiting", "done"}
            /\ task[i].pc = "waiting" => lookup[packageNames[i]].stage \in Unsettled
            /\ (task[i].pc = "done" /\ onProgress /\ ~ProgressHasThrown) =>
                  \E k \in 1..Len(progressLog) : progressLog[k].occ = i
            /\ (task[i].pc = "done" /\ IsSome(task[i].value)
                    /\ onBatchReady /\ ~BatchHasThrown) =>
                  Cardinality(DeliveriesOf(i)) + Cardinality(BufferedAt(i)) = 1
\* One package was fetched, reported and batched while another package's
\* lookup is sleeping between two attempts or waiting for the registry.
C11_Witness ==
    /\ Jsdelivr /\ onProgress /\ onBatchReady
    /\ \E i, j \in 1..Len(packageNames) :
          /\ task[i].pc = "done" /\ IsSome(task[i].value)
          /\ lookup[packageNames[i]].stage = "settled"
          /\ IsSome(lookup[packageNames[i]].latest)
          /\ \E k \in 1..Len(progressLog) : progressLog[k].occ = i
          /\ Cardinality(DeliveriesOf(i)) + Cardinality(BufferedAt(i)) = 1
          /\ task[j].pc = "waiting"
          /\ \/ lookup[packageNames[j]].phase = "sleep"
             \/ lookup[packageNames[j]].stage = "registry"

\* C12: in the persistent cache, after set(k, v) and then flush(), a new
\* process over the same directory gets v from get(k) (no time passes in
\* between, so the entry is within the disk TTL).
OpsFrom(i, ops) ==
    /\ i + Len(ops) - 1 <= Len(trace)
    /\ \A j \in 1..Len(ops) : trace[i + j - 1].op = ops[j]
SetFlushRestartGet(i) ==
    /\ OpsFrom(i, <<"set", "flush", "newInstance", "get">>)
    /\ ~trace[i].threw
    /\ trace[i + 3].key = trace[i].key
C12_FlushedEntrySurvives ==
    \A i \in 1..Len(trace) :
        SetFlushRestartGet(i) =>
            ~trace[i + 3].threw /\ trace[i + 3].value = trace[i].data
C12_OtherKeysSurvive ==
    \A i \in 1..Len(trace) :
        (SetFlushRestartGet(i) /\ getFilename(trace[i].key) # INDEX_FILE) =>
            ~trace[i + 3].threw /\ trace[i + 3].value = trace[i].data

\* C13: a get of the persistent cache on a key whose index entry is older
\* than DISK_CACHE_TTL returns nothing, and after it the entry's data file is
\* no longer in the cache directory.
LastOp == trace[Len(trace)]
IndexedEntries ==
    LET idx == Get(loadIndex(Store).index)
    IN  IF IsSome(idx.entries) THEN Range(Get(idx.entries)) ELSE {}
ExpiredEntries == {e \in IndexedEntries : now - e.timestamp > DISK_CACHE_TTL}
GetOfExpired ==
    /\ Len(trace') = Len(trace) + 1
    /\ LastOp'.op = "get"
    /\ \E e \in ExpiredEntries : e.name = LastOp'.key
C13_ExpiredEntryAndFileGone ==
    [][GetOfExpired =>
          /\ LastOp'.value = None /\ ~LastOp'.threw
          /\ \A e \in ExpiredEntries : e.name = LastOp'.key => e.file \notin DOMAIN files']_vars
C13_ExpiredEntryAbsent ==
    [][GetOfExpired =>
          /\ LastOp'.value = None /\ ~LastOp'.threw
          /\ \A e \in IndexedEntries' : e.name # LastOp'.key]_vars

\* C14: no get, set or getStats of the persistent cache throws, whatever the
\* cache directory holds (no index, an index that is not JSON, an index of
\* another version, an index without an entries object).
C14_CacheNeverThrows == \A i \in 1..Len(trace) : ~trace[i].threw

\* C15: when index.json holds an index of another format version, the first
\* operation of a process that loads it empties the persistent cache: a
\* getStats gives 0 entries, a get gives nothing, and no file of the old
\* cache remains (after a set, only the file and the entry just written).
OutdatedOnDisk ==
    /\ index = None /\ INDEX_FILE \in DOMAIN files
    /\ files[INDEX_FILE].kind = "index"
    /\ files[INDEX_FILE].version # CACHE_VERSION
C15_OutdatedIndexInvalidates ==
    [][(OutdatedOnDisk /\ IsSome(index')) =>
          /\ ~LastOp'.threw
          /\ LastOp'.op = "getStats" => LastOp'.entries = 0
          /\ LastOp'.op = "get" => LastOp'.value = None
          /\ \A f \in DOMAIN files' :
                /\ LastOp'.op = "set" /\ f = getFilename(LastOp'.key)
                /\ files'[f] = EntryFile(Get(LastOp'.data))
          /\ \A e \in IndexedEntries' : LastOp'.op = "set" /\ e.name = LastOp'.key]_vars
\* The first operation, a get of the package the outdated index lists, found
\* nothing and left an empty directory and an index to be saved.
C15_Witness ==
    /\ Len(trace) = 1 /\ LastOp.op = "get" /\ LastOp.key = pkg
    /\ LastOp.value = None /\ ~LastOp.threw
    /\ files = NoFiles /\ dirty /\ index = Some(FreshIndex)

\* C16: starting from an index of at most MaxCacheEntries entries, the index
\* never tracks more than MaxCacheEntries entries, whatever is set, got,
\* flushed or cleared; and a set made with MaxCacheEntries entries tracked
\* first drops the floor(MaxCacheEntries / 10) oldest entries, index entry and
\* data file, and then inserts its own.
EntryNames(entries) == {e.name : e \in entries}
SetAtCapacity ==
    /\ Len(trace') = Len(trace) + 1 /\ LastOp'.op = "set" /\ ~LastOp'.threw
    /\ Cardinality(IndexedEntries) >= MaxCacheEntries
C16_CapacityKept ==
    [][/\ Cardinality(IndexedEntries') <= MaxCacheEntries
       /\ SetAtCapacity =>
            \E evicted \in SUBSET IndexedEntries :
                /\ Cardinality(evicted) = MaxCacheEntries \div 10
                /\ \A e \in evicted, k \in IndexedEntries \ evicted :
                      e.timestamp <= k.timestamp
                /\ EntryNames(IndexedEntries') =
                      (EntryNames(IndexedEntries) \ EntryNames(evicted)) \cup {LastOp'.key}
                /\ \A e \in evicted :
                      e.name # LastOp'.key => e.file \notin DOMAIN files'
                /\ getFilename(LastOp'.key) \in DOMAIN files']_vars
\* A set of a new key was made on a full index: of the two oldest entries the
\* one inserted first is gone with its file, and the index is full again.
C16_Witness ==
    /\ Len(trace) = 1 /\ LastOp.op = "set" /\ ~LastOp.threw
    /\ LastOp.key = CapacityKey(MaxCacheEntries + 1)
    /\ Cardinality(IndexedEntries) = MaxCacheEntries
    /\ CapacityKey(MaxCacheEntries) \in EntryNames(IndexedEntries)
    /\ CapacityKey(MaxCacheEntries - 1) \notin EntryNames(IndexedEntries)
    /\ getFilename(CapacityKey(MaxCacheEntries - 1)) \notin DOMAIN files
    /\ getFilename(CapacityKey(MaxCacheEntries + 1)) \in DOMAIN files

\* C17: CacheManager.clear() empties the memory tier and leaves the disk tier
\* as it is: a key stored with set and not set again (only gets and flushes
\* in between, no time passing) is returned with its value by the get that
\* follows clear().
StoredThenCleared(i, j) ==
    /\ i < j /\ j < Len(trace)
    /\ trace[i].op = "set" /\ ~trace[i].threw
    /\ \A m \in (i + 1)..(j - 1) : trace[m].op \in {"get", "flush"}
    /\ trace[j].op = "clear"
    /\ trace[j + 1].op = "get" /\ trace[j + 1].key = trace[i].key
C17_StoredKeySurvivesClear ==
    \A i, j \in 1..Len(trace) :
        StoredThenCleared(i, j) =>
            ~trace[j + 1].threw /\ trace[j + 1].value = trace[i].data
C17_OtherKeysSurviveClear ==
    \A i, j \in 1..Len(trace) :
        (StoredThenCleared(i, j) /\ getFilename(trace[i].key) # INDEX_FILE) =>
            ~trace[j + 1].threw /\ trace[j + 1].value = trace[i].data
C17_ClearLeavesDiskTier ==
    [][(Len(trace') = Len(trace) + 1 /\ LastOp'.op = "clear") =>
          /\ timedMemory' = NoMemory
          /\ files' = files /\ index' = index /\ dirty' = dirty]_vars

CallAfterClear ==
    /\ cleared /\ diskIndex = "valid"
    /\ callState = "idle" /\ callState' # "idle" /\ entry' = "jsdelivr"
CdnComposed(n) == lookup[n].stage = "settled" /\ IsSome(lookup[n].latest)
IsDescending(versions) ==
    \A i, j \in 1..Len(versions) : i < j => CompareDescending(versions[i], versions[j]) <= 0
UniqueIdentities(versions) ==
    \A i, j \in 1..Len(versions) :
        versionIdentity(versions[i]) = versionIdentity(versions[j]) => i = j
C19_DescendingAndUnique ==
    Jsdelivr =>
        \A n \in Names :
            CdnComposed(n) =>
                /\ IsDescending(Get(lookup[n].result).allVersions)
                /\ UniqueIdentities(Get(lookup[n].result).allVersions)
\* C19 as the code has it: the composed allVersions is latestVersion, followed
\* by the major-tag version if that has another identity; it has no two
\* entries of the same identity, and it is in descending order whenever no
\* entry precedes latestVersion in that order.
C19_LatestFirstThenDescending ==
    Jsdelivr =>
        \A n \in Names :
            CdnComposed(n) =>
                LET data == Get(lookup[n].result)
                IN  /\ Len(data.allVersions) \in {1, 2}
                    /\ data.allVersions[1] = data.latestVersion
                    /\ data.latestVersion = Get(lookup[n].latest)
                    /\ UniqueIdentities(data.allVersions)
                    /\ IsDescending(Tail(data.allVersions))
                    /\ (\A v \in Range(data.allVersions) :
                            CompareDescending(data.latestVersion, v) <= 0)
                          => IsDescending(data.allVersions)
\* The CDN gave a latest version that is not the greatest: it is first, and
\* the major-tag version, which precedes it in the order, is second.
C19_Witness ==
    /\ Jsdelivr /\ CdnComposed("a")
    /\ Len(Get(lookup["a"].result).allVersions) = 2
    /\ ~IsDescending(Get(lookup["a"].result).allVersions)
    /\ Get(lookup["a"].result).allVersions[1] = Get(lookup["a"].latest)

\* C20: in every PackageVersionData that getAllPackageData has put in its
\* result, latestVersion is 'unknown' exactly when allVersions is empty, and
\* every element of allVersions has the strict form major.minor.patch.
WellFormedRegistryData(data) ==
    /\ data.latestVersion = UNKNOWN <=> data.allVersions = <<>>
    /\ \A v \in Range(data.allVersions) : IsStrictRelease(v)
C20_RegistryDataWellFormed ==
    Registry =>
        \A n \in Names : IsSome(packageData[n]) => WellFormedRegistryData(Get(packageData[n]))
C20_FetchedDataWellFormed ==
    Registry =>
        \A n \in Names :
            (IsSome(packageData[n]) /\ requests[n].registry > 0) =>
                WellFormedRegistryData(Get(packageData[n]))

\* C21: a second getAllPackageDataFromJsdelivr call made right after the first
\* with the same packages returns at once, with the result map of the first
\* call, and makes no request to the CDN or the registry and no fallback.
C21_SecondCallFromCache ==
    IsSome(previous) =>
        /\ Returned
        /\ packageData = Get(previous).data
        /\ \A n \in Names : requests[n] = NoRequests
        /\ fallbackLog = <<>>
\* The first call resolved the package over the network, the second returned
\* the same data without a request.
C21_Witness ==
    /\ IsSome(previous) /\ Returned
    /\ Get(previous).requests["a"].latest >= 1
    /\ IsSome(packageData["a"]) /\ packageData["a"] = Get(previous).data["a"]
    /\ requests["a"] = NoRequests

\* C22: a dependency whose resolved data is the sentinel is listed by
\* getOutdatedPackages with isOutdated, hasRangeUpdate and hasMajorUpdate all
\* false, every dependency that has data is listed, and the run returns
\* instead of throwing.
DetectorOver == detectorState \in {"returned", "threw"}
DepsWithData == {i \in 1..Len(allDeps) : IsSome(allPackageData[allDeps[i].name])}
ResolvedToSentinel(info) == allPackageData[info.name] = Some(Sentinel)
C22_SentinelNotOutdated ==
    DetectorOver =>
        /\ detectorState = "returned"
        /\ Len(packages) = Cardinality(DepsWithData)
        /\ \A k \in 1..Len(packages) :
              ResolvedToSentinel(packages[k]) =>
                  /\ ~packages[k].isOutdated
                  /\ ~packages[k].hasRangeUpdate
                  /\ ~packages[k].hasMajorUpdate
\* a run over a dependency resolved to the sentinel and an outdated one
C22_Witness ==
    /\ detectorState = "returned" /\ Len(packages) = 2
    /\ ResolvedToSentinel(packages[1]) /\ ~packages[1].isOutdated
    /\ ~ResolvedToSentinel(packages[2]) /\ packages[2].hasMajorUpdate

\* C23: after any sequence of Left, Right and the bulk selections, a package
\* has 'range' selected only if it has a range update and 'latest' only if it
\* has a major update, and a Right followed by a Left on the same row leaves
\* the selection the Right found.
RightThenLeft ==
    /\ Len(pressed) = 2
    /\ pressed[1].direction = "right" /\ pressed[2].direction = "left"
C23_SelectionAvailable ==
    /\ \A i \in 1..Len(states) :
          /\ states[i].selectedOption = "range" => states[i].hasRangeUpdate
          /\ states[i].selectedOption = "latest" => states[i].hasMajorUpdate
    /\ RightThenLeft => states[currentRow + 1].selectedOption = pressed[1].found
\* Right then Left from 'range' on a package that has no major update: the
\* Right wraps to 'none' and the Left comes back to 'range'.
C23_Witness ==
    /\ RightThenLeft /\ pressed[1].found = "range" /\ pressed[2].found = "none"
    /\ ~states[currentRow + 1].hasMajorUpdate
    /\ states[currentRow + 1].selectedOption = "range"

\* C24: below capacity and within the TTL, a get of a name returns the value
\* of the last set of that name, whatever was set under other names in
\* between.
LastSetBefore(j) ==
    {i \in 1..(j - 1) :
        /\ trace[i].op = "set" /\ trace[i].key = trace[j].key
        /\ \A k \in (i + 1)..(j - 1) :
              ~(trace[k].op = "set" /\ trace[k].key = trace[j].key)}
C24_DistinctKeysIndependent ==
    \A j \in 1..Len(trace) :
        trace[j].op = "get" =>
            \A i \in LastSetBefore(j) : trace[j].value = trace[i].data

\* C25: the CDN is asked for the major tag of a package only after 'latest'
\* has returned a version, and exactly when the current version given for
\* the package has a major that differs from the major of the latest version
\* or the latest version has none; otherwise the package's CDN requests are
\* for 'latest' only.
MajorDiffers(n) ==
    LET current == extractMajorVersion(currentVersions[n])
        latest == extractMajorVersion(lookup[n].latest)
    IN  /\ IsSome(current)
        /\ ~IsSome(latest) \/ Get(current) # Get(latest)
C25_MajorTagOnlyWhenMajorsDiffer ==
    Jsdelivr =>
        \A n \in Names :
            /\ requests[n].major > 0 => IsSome(lookup[n].latest) /\ requests[n].latest > 0
            /\ IsSome(lookup[n].latest) => (requests[n].major > 0 <=> MajorDiffers(n))
C25_Witness ==
    /\ Jsdelivr /\ Returned
    /\ currentVersions["a"] = Some(v100) /\ lookup["a"].latest = Some(v231)
    /\ requests["a"].latest = 1 /\ requests["a"].major = 1

\* C26: a tag fetch retries only transient faults.  After a non-retryable
\* status, a 200 without a version or a 200 whose body is not JSON, the fetch
\* is over, with no further request and no sleep, and a fetch that got only
\* such an answer made exactly one request; after a timeout, a transient
\* network error or a retryable status with attempts remaining, the fetch
\* goes on.
Fetching(n, tag) == lookup[n].stage = tag /\ lookup[n].phase \in {"request", "sleep"}
NonTransientClasses == {"fatal", "badJsonNamingTimeout"}
C26_OnlyTransientFaultsRetried ==
    Jsdelivr =>
        \A n \in Names, tag \in Tags :
            /\ seen[n][tag] \cap NonTransientClasses # {} => ~Fetching(n, tag)
            /\ (seen[n][tag] # {} /\ seen[n][tag] \subseteq NonTransientClasses) =>
                  requests[n][tag] = 1
            /\ ( /\ seen[n][tag] # {} /\ seen[n][tag] \subseteq RetryableClasses
                 /\ requests[n][tag] < Len(RETRY_TIMEOUTS) ) => Fetching(n, tag)

\* C27: the attempts of one tag fetch are strictly sequential.  A request
\* for a (package, tag) starts one at a time, as the attempt numbered by the
\* requests made before it, and a retry starts only from the sleep after the
\* failed attempt, or at once where the configured delay is zero; while the
\* fetch runs, the requests made are the attempts started.
RequestStarts(n, tag) == requests'[n][tag] > requests[n][tag]
AttemptsSequential ==
    \A n \in Names, tag \in Tags :
        /\ Fetching(n, tag) => requests[n][tag] = lookup[n].attempt + 1
        /\ RequestStarts(n, tag) =>
              /\ requests'[n][tag] = requests[n][tag] + 1
              /\ lookup'[n].stage = tag /\ lookup'[n].phase = "request"
              /\ lookup'[n].attempt = requests[n][tag]
              /\ requests[n][tag] > 0 =>
                    /\ lookup[n].stage = tag
                    /\ \/ lookup[n].phase = "sleep"
                       \/ /\ lookup[n].phase = "request"
                          /\ getRetryDelay(lookup[n].attempt, None) = 0
C27_AttemptsSequential == [][AttemptsSequential]_vars
\* the second attempt for 'latest' is outstanding, started after the sleep
C27_Witness ==
    /\ Jsdelivr /\ Fetching("a", "latest") /\ lookup["a"].phase = "request"
    /\ lookup["a"].attempt = 1 /\ requests["a"].latest = 2
    /\ "timeout" \in seen["a"].latest

\* C28: the sleep before a retry is the larger of the configured delay of
\* the attempt and the Retry-After of the response, where it has one, capped
\* at the longest configured retry timeout.
Sleeping(n) == lookup[n].phase = "sleep"
ConfiguredDelay(attempt) ==
    IF Len(RETRY_DELAYS) = 0 THEN 0
    ELSE IF attempt < Len(RETRY_DELAYS) THEN RETRY_DELAYS[attempt + 1]
    ELSE RETRY_DELAYS[Len(RETRY_DELAYS)]
LongestTimeout ==
    CHOOSE t \in Range(RETRY_TIMEOUTS) : \A u \in Range(RETRY_TIMEOUTS) : u <= t
C28_SleepIsLargerCapped ==
    \A n \in Names :
        Sleeping(n) =>
            LET configured == ConfiguredDelay(lookup[n].attempt)
                larger == IF IsSome(lookup[n].retryAfter)
                          THEN Max(configured, Get(lookup[n].retryAfter))
                          ELSE configured
            IN  lookup[n].sleepMs = Min(larger, LongestTimeout)

\* C29 as stated: a retry whose attempt has no delay entry of its own sleeps
\* for the last timeout value.
WithoutOwnDelay(n) ==
    /\ Sleeping(n) /\ lookup[n].attempt >= Len(RETRY_DELAYS)
    /\ ~IsSome(lookup[n].retryAfter)
C29_LastTimeoutReused ==
    \A n \in Names :
        WithoutOwnDelay(n) => lookup[n].sleepMs = RETRY_TIMEOUTS[Len(RETRY_TIMEOUTS)]
\* C29, amended: a retry whose attempt has no delay entry of its own sleeps
\* for the last entry of the delay sequence, and does not sleep of its own
\* when the sequence is empty.
RetryFollows(n) ==
    /\ lookup[n].phase = "request" /\ lookup'[n].stage = lookup[n].stage
    /\ lookup'[n].phase = "sleep" \/ lookup'[n].attempt = lookup[n].attempt + 1
LastDelayReused ==
    \A n \in Names :
        /\ WithoutOwnDelay(n) =>
              /\ Len(RETRY_DELAYS) > 0
              /\ lookup[n].sleepMs = RETRY_DELAYS[Len(RETRY_DELAYS)]
        /\ ( /\ RetryFollows(n) /\ Len(RETRY_DELAYS) > 0
             /\ lookup[n].attempt >= Len(RETRY_DELAYS) ) => lookup'[n].phase = "sleep"
C29_LastDelayReused == [][LastDelayReused]_vars
\* the second retry under a delay table of one entry sleeps for that entry
C29_Witness ==
    /\ WithoutOwnDelay("a") /\ lookup["a"].attempt = 1 /\ Len(RETRY_DELAYS) = 1
    /\ lookup["a"].sleepMs = RETRY_DELAYS[1]

\* C30: when getAllPackageData has returned, the value of every package it
\* asked the registry for, a version listing or the sentinel of a failed
\* request, is the package's entry in the memory cache and in the disk cache.
AskedRegistry(n) == n \in InputNames /\ requests[n].registry > 0
C30_ReturnedValueStored ==
    (Registry /\ Returned) =>
        \A n \in Names :
            AskedRegistry(n) =>
                /\ IsSome(packageData[n])
                /\ memoryCache[n] = packageData[n]
                /\ diskCache[n] = packageData[n]

\* C31: the value the fallback returned for a package whose 'latest' the CDN
\* did not give, the sentinel included, is in the cache under the package's
\* name when the lookup settles, and a second call has it for the package
\* without a CDN or a registry request and without another fallback.
FellBack(n) == IsSome(previous) /\ Get(previous).requests[n].registry > 0
C31_FallbackValueCached ==
    Jsdelivr =>
        \A n \in Names :
            /\ (previous = None /\ IsSome(lookup[n].registry)) =>
                  memoryCache[n] = lookup[n].registry
            /\ (FellBack(n) /\ n \in InputNames) =>
                  /\ packageData[n] = Get(previous).data[n]
                  /\ requests[n] = NoRequests
                  /\ FallbacksFor(n) = {}
\* the fallback gave the sentinel in the first call; the second call returned it
C31_Witness ==
    /\ Jsdelivr /\ Returned /\ FellBack("a")
    /\ Get(previous).data["a"] = Some(Sentinel)
    /\ packageData["a"] = Some(Sentinel) /\ requests["a"] = NoRequests

\* C32: in one getAllPackageDataFromJsdelivr call packageCache.flush runs
\* exactly once, after every package has settled: not at all while the call
\* runs, and once when it has returned.
C32_FlushedOnceAtEnd ==
    Jsdelivr =>
        /\ callState = "running" => flushes = 0
        /\ Returned => flushes = 1

\* C33: wherever the call is suspended with results in the batch buffer, the
\* batch-ready callback is enabled and the flush timer is armed; the timer is
\* armed in the step that buffers the first unflushed result; and the buffer
\* is empty when the call has returned.
BufferedUnderTimer ==
    Jsdelivr =>
        /\ batchBuffer # <<>> => batchReadyCallback /\ batchTimer
        /\ Returned => batchBuffer = <<>>
TimerArmedWithFirstItem ==
    (~batchTimer /\ batchTimer') => (batchBuffer = <<>> /\ batchBuffer' # <<>>)
C33_BufferedResultsUnderTimer == []BufferedUnderTimer /\ [][TimerArmedWithFirstItem]_vars
\* two results wait in the buffer under the timer
C33_Witness ==
    /\ Jsdelivr /\ callState = "running" /\ batchReadyCallback
    /\ Len(batchBuffer) = 2 /\ batchTimer

\* C34: once getAllPackageDataFromJsdelivr has returned, nothing of the call
\* is left that could invoke a callback: no batch timer is armed, no position
\* and no lookup is pending, and no step adds to what the callbacks were
\* given.
NothingPending ==
    /\ ~batchTimer /\ batchBuffer = <<>> /\ inFlightLookups = {}
    /\ \A i \in 1..Len(packageNames) : task[i].pc = "done"
    /\ \A n \in Names : lookup[n].phase = "none"
QuietAfterReturn == (Jsdelivr /\ Returned) => NothingPending
NoCallbackAfterReturn ==
    (Jsdelivr /\ Returned) => (progressLog' = progressLog /\ batchLog' = batchLog)
C34_NoCallbackAfterReturn == []QuietAfterReturn /\ [][NoCallbackAfterReturn]_vars
\* a call that armed the timer, delivered two batches and has returned
C34_Witness ==
    /\ Jsdelivr /\ Returned /\ ~batchTimer /\ onBatchReady
    /\ Len(batchLog) >= 2 /\ Len(batchLog[1]) < BATCH_SIZE
    /\ Len(progressLog) >= 2

\* C35: after clearCache, and until something is stored again, every get
\* returns absent and getStats counts no entry, in the instance that cleared
\* and in a later instance on the directory, with or without a flush.
SinceClear(j) ==
    \E i \in 1..(j - 1) :
        /\ trace[i].op = "clearCache"
        /\ \A k \in (i + 1)..(j - 1) : trace[k].op # "set"
C35_ClearedCacheIsEmpty ==
    \A j \in 1..Len(trace) :
        SinceClear(j) =>
            /\ ~trace[j].threw
            /\ trace[j].op = "get" => trace[j].value = None
            /\ trace[j].op = "getStats" => trace[j].entries = 0
\* a key is stored, the cache is cleared, and another instance looks the key up
C35_Witness ==
    /\ Len(trace) = 4
    /\ trace[1].op = "set" /\ trace[2].op = "clearCache"
    /\ trace[3].op = "newInstance"
    /\ trace[4].op = "get" /\ trace[4].key = trace[1].key /\ trace[4].value = None

\* C36: a get of a key whose data file is missing or unparsable returns absent
\* and removes that key's index entry alone: the files and the other entries
\* are as they were, and every other key is retrieved as before.
Damaged(S, key) ==
    LET S1 == loadIndex(S)
        entries == Get(S1.index).entries
        found == SelectSeq(Get(entries), LAMBDA e : e.name = key)
    IN  /\ IsSome(entries)
        /\ found # <<>>
        /\ S1.now - found[1].timestamp <= DISK_CACHE_TTL
        /\ \/ found[1].file \notin DOMAIN S1.files
           \/ S1.files[found[1].file].kind = "corrupt"
GetOf(key) ==
    /\ trace' = Append(trace, trace'[Len(trace')])
    /\ trace'[Len(trace')].op = "get" /\ trace'[Len(trace')].key = key
OnlyDamagedKeyDropped ==
    \A key \in DamageKeys :
        (Damaged(Store, key) /\ GetOf(key)) =>
            /\ trace'[Len(trace')].value = None
            /\ ~trace'[Len(trace')].threw
            /\ files' = files
            /\ Get(Get(index').entries) =
                   WithoutEntries(Get(Get(loadIndex(Store).index).entries), {key})
            /\ \A other \in DamageKeys \ {key} :
                   persistentGet(Store', other).value = persistentGet(Store, other).value
C36_OnlyDamagedKeyDropped == [][OnlyDamagedKeyDropped]_vars
\* the file of pkg is missing: its get finds nothing, the scoped key is then read
C36_Witness ==
    /\ Len(trace) = 2
    /\ getFilename(pkg) \notin DOMAIN files
    /\ trace[1].op = "get" /\ trace[1].key = pkg /\ trace[1].value = None
    /\ trace[2].op = "get" /\ trace[2].key = <<"@", "s", "/", "n">>
    /\ trace[2].value = Some(dCdn)
    /\ IsSome(index) /\ Len(Get(Get(index).entries)) = 1

\* C37: when every request is answered and every sleep ends, a running
\* getAllPackageDataFromJsdelivr call returns; on the way no tag of a package
\* is requested more often than there are retry timeouts, only the tags
\* 'latest' and 'major' are fetched, and the fallback runs at most once for a
\* package.
ResolutionBounded ==
    Jsdelivr =>
        \A n \in Names :
            /\ requests[n].latest <= EffectiveEntries
            /\ requests[n].major <= EffectiveEntries
            /\ requests[n].registry <= 1
            /\ Cardinality(FallbacksFor(n)) <= 1
            /\ lookup[n].stage \in {"idle", "latest", "major", "registry", "settled"}
C37_CallEventuallyReturns ==
    /\ []ResolutionBounded
    /\ (Jsdelivr /\ callState = "running") ~> (Jsdelivr /\ Returned)
\* both packages went through every attempt of 'latest' and the fallback
C37_Witness ==
    /\ Jsdelivr /\ Returned /\ Len(cfgTimeouts) = 2
    /\ \A n \in Names : requests[n].latest = 2 /\ requests[n].registry = 1
                        /\ Cardinality(FallbacksFor(n)) = 1

\* C38: a get at or after the time a key was last stored plus the TTL of the
\* disk tier plus the TTL of the memory tier returns nothing: what was stored
\* is served for less than the sum of the two TTLs.  What the directory holds
\* at the start was stored at time 0.
StoredAt(key, j) ==
    LET sets == {i \in 1..(j - 1) : trace[i].op = "set" /\ trace[i].key = key}
    IN  IF sets = {} THEN 0 ELSE trace[CHOOSE i \in sets : \A k \in sets : k <= i].at
C38_ServedLessThanBothTtls ==
    \A j \in 1..Len(trace) :
        (/\ trace[j].op = "get"
         /\ trace[j].at >= StoredAt(trace[j].key, j) + DISK_CACHE_TTL + CACHE_TTL) =>
            trace[j].value = None
\* stored at 0, read from disk at the last moment of the disk TTL, gone one
\* memory TTL later
C38_Witness ==
    /\ Len(trace) = 4
    /\ trace[1].op = "clock"
    /\ trace[2].op = "get" /\ trace[2].key = pkg /\ trace[2].at = DISK_CACHE_TTL
    /\ trace[2].value = Some(Sentinel)
    /\ trace[3].op = "clock"
    /\ trace[4].op = "get" /\ trace[4].key = pkg
    /\ trace[4].at = DISK_CACHE_TTL + CACHE_TTL /\ trace[4].value = None

\* C39: every batch handed to the batch-ready callback holds at least one and
\* at most BATCH_SIZE items, and the buffer never holds BATCH_SIZE items
\* between steps.
C39_BatchSizes ==
    Jsdelivr =>
        /\ \A i \in 1..Len(batchLog) :
              Len(batchLog[i]) >= 1 /\ Len(batchLog[i]) <= BATCH_SIZE
        /\ Len(batchBuffer) < BATCH_SIZE
\* a full batch handed over by size, then the rest by the timer or at the end
C39_Witness ==
    /\ Jsdelivr /\ Returned /\ Len(batchLog) = 2
    /\ Len(batchLog[1]) = BATCH_SIZE /\ Len(batchLog[2]) = 1

\* C40: while a list is on screen the row of the selected package is inside
\* the window [scrollOffset, scrollOffset + maxVisibleItems) and scrollOffset
\* is between 0 and max(0, totalVisualItems - maxVisibleItems).
TotalVisualItems ==
    IF Len(renderableItems) # 0 THEN Len(renderableItems) ELSE totalItems
SelectedRow == packageIndexToVisualIndex(renderableItems, currentRow)
SelectedVisible ==
    SelectedRow >= scrollOffset /\ SelectedRow < scrollOffset + maxVisibleItems
OffsetInRange ==
    scrollOffset >= 0 /\ scrollOffset <= Max(0, TotalVisualItems - maxVisibleItems)
C40_SelectedStaysVisible ==
    totalItems > 0 => SelectedVisible /\ OffsetInRange

====
